---- MODULE Spec2Model ----
(***************************************************************************)
(* A model of the propdatascraper repository: the retrying fetcher of the  *)
(* scrapers, the per-site extraction chains, the Apex merge rule, the      *)
(* Trustpilot score cache and the aggregation done by main().              *)
(*                                                                         *)
(* Texts are modelled as sequences of tokens (a token is the smallest      *)
(* piece of text one of the program's regular expressions tells apart);    *)
(* dicts and objects are functions from keys to values; network answers    *)
(* and random choices are inputs drawn with \E.                            *)
(***************************************************************************)
EXTENDS Naturals, Integers, Sequences, FiniteSets, TLC

VARIABLES
    headers,      \* self.session.headers of the scraper instance in use
    call,         \* the _make_request call in progress (SpecFetch)
    events,       \* what the current _make_request call did so far: sleeps and GETs
    soup,         \* the parsed document handed to an extraction function
    extracted,    \* what the extraction function returned for soup
    self_plans,   \* self.plans of the Apex scraper instance (SpecMerge)
    merges,       \* the _merge_plan_data calls made so far (SpecMerge)
    df,           \* the rows of the CSV file read by populate_trustpilot_scores
    domain_scores,\* its cache of scores by domain
    cursor,       \* where its loop over the rows stands
    lookups,      \* the source_url of every get_trustpilot_score call it made
    pc,           \* where main() stands: the step and the index of the next URL
    all_data,     \* all_data of main()
    runs,         \* for each scraper: how its try block in main() ended, with its data
    calls,        \* for each call of a scraper entry point: what it went through
    origin,       \* for each plan of self.plans and each record of all_data:
                  \* whether it was extracted live or taken from the fallback data
    k_text,       \* the argument of convert_k_to_thousands, as a sequence of characters
    given,        \* how k_text was composed: a number with its marks, or any text
    returned,     \* what convert_k_to_thousands returned for k_text
    score_call    \* the get_trustpilot_score call in progress (SpecScore)

fetchVars == <<headers, call, events>>
extractVars == <<soup, extracted>>
mergeVars == <<self_plans, merges>>
cacheVars == <<df, domain_scores, cursor, lookups>>
mainVars == <<pc, all_data, runs, calls, origin>>
convertVars == <<k_text, given, returned>>
scoreVars == <<score_call>>

nonFetchVars == <<extractVars, mergeVars, cacheVars, mainVars, convertVars, scoreVars>>
nonExtractVars == <<fetchVars, mergeVars, cacheVars, mainVars, convertVars, scoreVars>>
nonMergeVars == <<fetchVars, extractVars, cacheVars, mainVars, convertVars, scoreVars>>
nonCacheVars == <<fetchVars, extractVars, mergeVars, mainVars, convertVars, scoreVars>>
nonConvertVars == <<fetchVars, extractVars, mergeVars, cacheVars, mainVars, scoreVars>>
nonScoreVars == <<fetchVars, extractVars, mergeVars, mainVars, convertVars>>

vars == <<headers, call, events, soup, extracted, self_plans, merges,
          df, domain_scores, cursor, lookups, pc, all_data, runs, calls, origin,
          k_text, given, returned, score_call>>

(***************************************************************************)
(* Generic helpers for dicts (functions with a finite domain of keys).     *)
(***************************************************************************)

\* dict.get(key, default)
Get(d, key, default) == IF key \in DOMAIN d THEN d[key] ELSE default

\* dict.update(u), also used for Session.headers.update(u)
Update(d, u) == [k \in DOMAIN d \cup DOMAIN u |-> IF k \in DOMAIN u THEN u[k] ELSE d[k]]

\* Python's None, as returned by _make_request
None == [none |-> TRUE]

(***************************************************************************)
(* The fetcher: BaseScraper._make_request and its copies in the Apex and   *)
(* Tradeify scrapers.                                                      *)
(***************************************************************************)

DefaultMaxRetries == 3

\* _get_user_agents(): the fixed pool the User-Agent is drawn from
UserAgents == <<"Chrome/120.0.0.0 Windows NT 10.0",
                "Chrome/120.0.0.0 Macintosh",
                "Chrome/120.0.0.0 X11 Linux",
                "Firefox/121.0 Windows NT 10.0",
                "Firefox/121.0 Macintosh">>

\* _get_default_headers()
DefaultHeaders ==
    ("User-Agent" :> UserAgents[1]) @@
    ("Accept" :> "text/html,application/xhtml+xml") @@
    ("Accept-Language" :> "en-US,en;q=0.9") @@
    ("Accept-Encoding" :> "gzip, deflate, br") @@
    ("DNT" :> "1") @@
    ("Connection" :> "keep-alive") @@
    ("Upgrade-Insecure-Requests" :> "1") @@
    ("Sec-Fetch-Dest" :> "document") @@
    ("Sec-Fetch-Mode" :> "navigate") @@
    ("Sec-Fetch-Site" :> "none") @@
    ("Sec-Fetch-User" :> "?1") @@
    ("Cache-Control" :> "max-age=0")

\* the headers _handle_403_error adds
AugmentedHeaders ==
    ("Referer" :> "https://www.google.com/") @@
    ("Sec-Ch-Ua" :> "Chromium;v=120") @@
    ("Sec-Ch-Ua-Mobile" :> "?0") @@
    ("Sec-Ch-Ua-Platform" :> "Windows")

\* _handle_403_error(): self.session.headers.update({...})
Handle403Error(h) == Update(h, AugmentedHeaders)

\* What the network can answer to one GET: a status code with a body, a
\* requests.RequestException, or an exception of another class.
StatusOutcome(code, content) == [kind |-> "status", status |-> code, content |-> content]
RequestException == [kind |-> "RequestException", status |-> 0, content |-> <<>>]
OtherException == [kind |-> "Exception", status |-> 0, content |-> <<>>]

FailureOutcomes == {StatusOutcome(403, <<>>), StatusOutcome(429, <<>>),
                    StatusOutcome(500, <<>>), RequestException, OtherException}

SleepEvent(lo, hi) == [op |-> "sleep", lo |-> lo, hi |-> hi]
\* Mutant of GetEvent: the GET is made without a timeout.
GetEventNoTimeout(url, h, outcome) ==
    [op |-> "get", url |-> url, headers |-> h, timeout |-> 0,
     answer |-> IF outcome.kind = "status" THEN outcome.status ELSE 0,
     error |-> IF outcome.kind = "status" THEN "" ELSE outcome.kind]

\* `self.session.get(url, timeout=30)`
GetEvent(url, h, outcome) ==
    [op |-> "get", url |-> url, headers |-> h, timeout |-> 30,
     answer |-> IF outcome.kind = "status" THEN outcome.status ELSE 0,
     error |-> IF outcome.kind = "status" THEN "" ELSE outcome.kind]

\* Mutant of RetryDelay: the backoff sleep is also made before the first attempt.
RetryDelayAlways(attempt) == <<SleepEvent(2, 5)>>

\* if attempt > 0: time.sleep(random.uniform(2, 5))
RetryDelay(attempt) == IF attempt > 0 THEN <<SleepEvent(2, 5)>> ELSE <<>>

\* Mutant of StatusBranch: a 200 answer is not returned but retried.
StatusBranchNoReturn(h, outcome) ==
    [ctl |-> "continue", response |-> None,
     headers |-> IF outcome.status = 403 THEN Handle403Error(h) ELSE h,
     events |-> IF outcome.status = 429 THEN <<SleepEvent(10, 20)>> ELSE <<>>]

\* The if/elif chain on response.status_code.
StatusBranch(h, outcome) ==
    IF outcome.status = 200
    THEN [ctl |-> "return", response |-> [status |-> 200, content |-> outcome.content],
          headers |-> h, events |-> <<>>]
    ELSE IF outcome.status = 403
    THEN [ctl |-> "continue", response |-> None, headers |-> Handle403Error(h),
          events |-> <<>>]
    ELSE IF outcome.status = 429
    THEN [ctl |-> "continue", response |-> None, headers |-> h,
          events |-> <<SleepEvent(10, 20)>>]
    ELSE [ctl |-> "continue", response |-> None, headers |-> h, events |-> <<>>]

\* One iteration of `for attempt in range(max_retries)`: the try block and its
\* except clause.  ua is the value random.choice returns, outcome the answer
\* to session.get.  ctl says how the iteration ends: "return" (a response is
\* returned), "continue" (next attempt) or "raise" (an exception that is no
\* RequestException leaves _make_request).
AttemptBody(h, url, attempt, ua, outcome) ==
    LET h1 == [h EXCEPT !["User-Agent"] = ua]
        pre == RetryDelay(attempt) \o <<GetEvent(url, h1, outcome)>>
    IN  IF outcome.kind = "Exception"
        THEN [ctl |-> "raise", response |-> None, headers |-> h1, events |-> pre]
        ELSE IF outcome.kind = "RequestException"
        THEN [ctl |-> "continue", response |-> None, headers |-> h1, events |-> pre]
        ELSE LET b == StatusBranch(h1, outcome)
             IN  [ctl |-> b.ctl, response |-> b.response, headers |-> b.headers,
                  events |-> pre \o b.events]

\* Mutant of LoopContinues: one attempt more than max_retries is made.
LoopContinuesOffByOne(attempt, max_retries) == attempt <= max_retries

\* range(max_retries): is there an iteration numbered `attempt`?
LoopContinues(attempt, max_retries) == attempt < max_retries

\* _make_request(url, max_retries) as a whole, from iteration `attempt` on.
\* choices[k] = [ua, outcome] holds the random choice and the network answer
\* of iteration k-1.  The result: the returned value, whether an exception
\* left the call, the session headers afterwards and what was done.
RECURSIVE MakeRequestFrom(_, _, _, _, _, _)
MakeRequestFrom(h, url, max_retries, choices, attempt, done) ==
    IF ~LoopContinues(attempt, max_retries)
    THEN [response |-> None, raised |-> FALSE, headers |-> h, events |-> done]
    ELSE LET c == choices[attempt + 1]
             b == AttemptBody(h, url, attempt, c.ua, c.outcome)
         IN  IF b.ctl = "return"
             THEN [response |-> b.response, raised |-> FALSE, headers |-> b.headers,
                   events |-> done \o b.events]
             ELSE IF b.ctl = "raise"
             THEN [response |-> None, raised |-> TRUE, headers |-> b.headers,
                   events |-> done \o b.events]
             ELSE MakeRequestFrom(b.headers, url, max_retries, choices, attempt + 1,
                                  done \o b.events)

MakeRequest(h, url, max_retries, choices) ==
    MakeRequestFrom(h, url, max_retries, choices, 0, <<>>)

\* The GET events among a sequence of events.
Gets(evs) == SelectSeq(evs, LAMBDA e : e.op = "get")

(***************************************************************************)
(* SpecFetch: _make_request called again and again on one scraper          *)
(* instance, one loop iteration per step.                                  *)
(***************************************************************************)

FetchUrls == {"https://tradeify.co", "https://tradeify.co/pricing"}

\* The answers and random choices explored by SpecFetch.
FetchOutcomes == FailureOutcomes \cup {StatusOutcome(200, <<>>)}
FetchUserAgents == {UserAgents[1], UserAgents[4]}

Idle == [state |-> "idle", url |-> "", max_retries |-> 0, attempt |-> 0, response |-> None]

FetchIdle ==
    /\ headers = DefaultHeaders
    /\ call = Idle
    /\ events = <<>>

NotRun == [run |-> FALSE]

ExtractIdle ==
    /\ soup = <<>>
    /\ extracted = NotRun

MergeIdle ==
    /\ self_plans = <<>>
    /\ merges = <<>>

CacheIdle ==
    /\ df = <<>>
    /\ domain_scores = <<>>
    /\ cursor = [pc |-> "idle", index |-> 0]
    /\ lookups = <<>>

MainIdle ==
    /\ pc = [at |-> "idle", url |-> 0]
    /\ all_data = <<>>
    /\ runs = <<>>
    /\ calls = <<>>
    /\ origin = [plans |-> <<>>, data |-> <<>>]

ConvertIdle ==
    /\ k_text = <<>>
    /\ given = <<>>
    /\ returned = NotRun

ScoreIdle == score_call = NotRun

\* Every part of the state that the named specification does not use is idle.
IdleExcept(part) ==
    /\ IF part = "fetch" THEN TRUE ELSE FetchIdle
    /\ IF part = "extract" THEN TRUE ELSE ExtractIdle
    /\ IF part = "merge" THEN TRUE ELSE MergeIdle
    /\ IF part = "cache" THEN TRUE ELSE CacheIdle
    /\ IF part = "main" THEN TRUE ELSE MainIdle
    /\ IF part = "convert" THEN TRUE ELSE ConvertIdle
    /\ IF part = "score" THEN TRUE ELSE ScoreIdle

InitFetch ==
    /\ FetchIdle
    /\ IdleExcept("fetch")

\* A caller invokes self._make_request(url, max_retries).
BeginRequest ==
    /\ call.state # "loop"
    /\ \E url \in FetchUrls, m \in 1..DefaultMaxRetries :
         call' = [state |-> "loop", url |-> url, max_retries |-> m, attempt |-> 0,
                  response |-> None]
    /\ events' = <<>>
    /\ UNCHANGED <<headers, nonFetchVars>>

\* One iteration of the retry loop.
Attempt ==
    /\ call.state = "loop"
    /\ LoopContinues(call.attempt, call.max_retries)
    /\ \E ua \in FetchUserAgents, outcome \in FetchOutcomes :
         LET b == AttemptBody(headers, call.url, call.attempt, ua, outcome)
         IN  /\ headers' = b.headers
             /\ events' = events \o b.events
             /\ call' = IF b.ctl = "continue"
                        THEN [call EXCEPT !.attempt = call.attempt + 1]
                        ELSE [call EXCEPT !.state = IF b.ctl = "return" THEN "returned"
                                                     ELSE "raised",
                                          !.attempt = call.attempt + 1,
                                          !.response = b.response]
    /\ UNCHANGED nonFetchVars

\* The loop is exhausted: return None.
ReturnNone ==
    /\ call.state = "loop"
    /\ ~LoopContinues(call.attempt, call.max_retries)
    /\ call' = [call EXCEPT !.state = "returned", !.response = None]
    /\ UNCHANGED <<headers, events, nonFetchVars>>

NextFetch == BeginRequest \/ Attempt \/ ReturnNone

SpecFetch == InitFetch /\ [][NextFetch]_vars

\* C3 (retry bound): a _make_request call issues at most max_retries GETs; no
\* GET follows an answer of 200, which is returned; and None is returned only
\* after exactly max_retries GETs, none of them answered with 200.
C3_RetryBound ==
    LET g == Gets(events)
    IN  /\ Len(g) <= call.max_retries
        /\ \A i \in 1..Len(g) : g[i].answer = 200 =>
              /\ i = Len(g)
              /\ call.state = "returned"
              /\ call.response = [status |-> 200, content |-> <<>>]
        /\ (call.state = "returned" /\ call.response = None) => Len(g) = call.max_retries
        /\ (call.state = "returned" /\ call.response # None) =>
              (Len(g) >= 1 /\ g[Len(g)].answer = 200)

\* C3 witness: a call with the default max_retries whose three attempts were
\* answered by a 403, a RequestException and a 500 has returned None.
C3_Witness ==
    LET g == Gets(events)
    IN  /\ call.state = "returned"
        /\ call.response = None
        /\ call.max_retries = DefaultMaxRetries
        /\ Len(g) = 3
        /\ g[1].answer = 403 /\ g[2].answer = 0 /\ g[3].answer = 500

(***************************************************************************)
(* Texts.  A text is a sequence of tokens; a regular expression of the     *)
(* program is modelled by the group it captures in each token ("" when it  *)
(* does not match the token), and re.search by the leftmost token the      *)
(* expression matches.                                                     *)
(***************************************************************************)

\* The index of the leftmost token for which capture gives a group, 0 if none.
RECURSIVE SearchFrom(_, _, _)
SearchFrom(capture(_), text, i) ==
    IF i > Len(text) THEN 0
    ELSE IF capture(text[i]) # "" THEN i
    ELSE SearchFrom(capture, text, i + 1)

\* re.search(pattern, text): the group captured by the leftmost match, "" if none.
Search(capture(_), text) ==
    LET i == SearchFrom(capture, text, 1)
    IN  IF i = 0 THEN "" ELSE capture(text[i])

\* `word in text.lower()` for a set of tokens whose lower case contains word.
Mentions(text, toks) == \E i \in 1..Len(text) : text[i] \in toks

\* Trying patterns in order and taking the first that matches:
\* `for pattern in patterns: m = re.search(pattern, text); if m: ...; break`.
FirstGroup(groups) ==
    LET hit == SelectSeq(groups, LAMBDA g : g # "")
    IN  IF hit = <<>> THEN "" ELSE hit[1]

(***************************************************************************)
(* My Funded Futures: MyFundedFuturesScraper._extract_plans and            *)
(* _extract_plan_details.  An element is [tag, cls, text].                 *)
(***************************************************************************)

\* size_patterns, by the group each captures
MffSize1(tok) ==  \* r'\$(\d+)K'
    CASE tok = "$50K" -> "50" [] tok = "$100K" -> "100" [] OTHER -> ""
MffSize2(tok) ==  \* r'(\d+)K\s*Account'
    CASE tok = "50K Account" -> "50" [] OTHER -> ""
MffSize3(tok) ==  \* r'(\d+),000'
    CASE tok = "50,000" -> "50" [] tok = "Profit Target: $3,000" -> "3" [] OTHER -> ""

\* price_patterns (re.IGNORECASE)
MffPrice1(tok) ==  \* r'\$(\d+)\s*/\s*month'
    CASE tok = "$127/month" -> "127" [] OTHER -> ""
MffPrice2(tok) ==  \* r'\$(\d+)\s*monthly'
    CASE tok = "$267 monthly" -> "267" [] OTHER -> ""
MffPrice3(tok) ==  \* r'(\d+)\s*\/\s*month'
    CASE tok = "$127/month" -> "127" [] OTHER -> ""

\* profit_patterns (re.IGNORECASE)
MffProfit1(tok) ==  \* r'Profit\s+Target[:\s]*\$([0-9,]+)'
    CASE tok = "Profit Target: $3,000" -> "3,000" [] OTHER -> ""
MffProfit2(tok) ==  \* r'Target[:\s]*\$([0-9,]+)'
    CASE tok = "Profit Target: $3,000" -> "3,000" [] OTHER -> ""
MffProfit3(tok) ==  \* r'Profit\s+Goal[:\s]*\$([0-9,]+)'
    CASE tok = "Profit Goal: $6,000" -> "6,000" [] OTHER -> ""

\* The trial type chosen from the words of the text.
MffTrialType(text) ==
    IF Mentions(text, {"Starter"}) THEN "Starter Plus"
    ELSE IF Mentions(text, {"Expert"}) THEN "Expert"
    ELSE IF Mentions(text, {"Evaluation", "Eval"}) /\ Mentions(text, {"Live"})
    THEN "Eval To Live"
    ELSE IF Mentions(text, {"Evaluation"}) THEN "Evaluation"
    ELSE "Standard Account"

\* _extract_plan_details(item)
ExtractPlanDetails(item) ==
    LET text == item.text
        size == FirstGroup(<<Search(MffSize1, text), Search(MffSize2, text),
                             Search(MffSize3, text)>>)
        price == FirstGroup(<<Search(MffPrice1, text), Search(MffPrice2, text),
                              Search(MffPrice3, text)>>)
        profit == FirstGroup(<<Search(MffProfit1, text), Search(MffProfit2, text),
                               Search(MffProfit3, text)>>)
    IN  (IF size # "" THEN "account_size" :> ("$" \o size \o "K") ELSE <<>>) @@
        (IF price # "" THEN "sale_price" :> ("$" \o price \o "/Month") ELSE <<>>) @@
        (IF profit # "" THEN "profit_goal" :> ("$" \o profit) ELSE <<>>) @@
        ("trial_type" :> MffTrialType(text)) @@
        ("funded_full_price" :> "")

\* pricing_selectors, in the order they are tried
MffSelectors == <<".pricing-card", ".plan-card", ".pricing-item", ".plan-item",
                  "[class*=plan]", "[class*=pricing]">>

\* Does the selector match an element of class cls?
MffMatches(selector, cls) ==
    CASE selector = "[class*=plan]" -> cls \in {"plan-card", "plan-item", "plans-nav"}
      [] selector = "[class*=pricing]" -> cls \in {"pricing-card", "pricing-item"}
      [] OTHER -> selector = "." \o cls

\* soup.select(selector): the matching elements in document order
MffSelect(doc, selector) == SelectSeq(doc, LAMBDA e : MffMatches(selector, e.cls))

\* r'\$\d+K.*\$\d+.*month' (re.IGNORECASE) on the text of a div: a "$<n>K",
\* later a "$<n>", later "month".
MffDollarK(tok) == tok \in {"$50K", "$100K", "$50k"}
MffDollarNum(tok) == tok \in {"$50K", "$100K", "$50k", "$127/month", "$267 monthly",
                              "Profit Target: $3,000", "Profit Goal: $6,000"}
MffMonth(tok) == tok \in {"$127/month", "$267 monthly"}
MffLooksLikePricing(text) ==
    \E i, j, k \in 1..Len(text) :
        /\ i < j /\ j <= k
        /\ MffDollarK(text[i]) /\ MffDollarNum(text[j]) /\ MffMonth(text[k])

\* The div scan: every div whose text looks like a pricing card.
MffDivScan(doc) ==
    SelectSeq(doc, LAMBDA e : e.tag = "div" /\ MffLooksLikePricing(e.text))

\* Mutant of MffStops: a selector stops the chain only if one of its elements
\* yields an account size.
MffStopsOnYield(items) ==
    \E i \in 1..Len(items) : "account_size" \in DOMAIN ExtractPlanDetails(items[i])

\* `if items: pricing_items = items; break`
MffStops(items) == items # <<>>

\* The loop over pricing_selectors: the elements of the first selector that
\* stops the chain, <<>> when none does.
RECURSIVE MffFirstSelection(_, _)
MffFirstSelection(doc, n) ==
    IF n > Len(MffSelectors) THEN <<>>
    ELSE IF MffStops(MffSelect(doc, MffSelectors[n])) THEN MffSelect(doc, MffSelectors[n])
    ELSE MffFirstSelection(doc, n + 1)

\* `if not pricing_items:` the div scan is run
MffDivScanRuns(doc) == MffFirstSelection(doc, 1) = <<>>

\* pricing_items after both steps
MffPricingItems(doc) ==
    IF MffDivScanRuns(doc) THEN MffDivScan(doc) ELSE MffFirstSelection(doc, 1)

\* The candidates of a list of elements: those with a non-empty account size.
MffYield(items) ==
    LET details == [i \in 1..Len(items) |-> ExtractPlanDetails(items[i])]
    IN  SelectSeq(details, LAMBDA d : Get(d, "account_size", "") # "")

\* _extract_plans(soup)
ExtractPlans(doc) == MffYield(MffPricingItems(doc))

(***************************************************************************)
(* SpecMffExtract: _extract_plans applied to every document of at most     *)
(* MaxElements elements.                                                   *)
(***************************************************************************)

MaxElements == 2

MffTexts == {<<"Starter", "$50K", "$127/month", "Profit Target: $3,000">>,
             <<"50,000", "$100K", "Expert", "$267 monthly">>,
             <<"$50k", "$127/month">>,
             <<"Contact us">>}
MffClasses == {"pricing-card", "plan-card", "plans-nav", "box"}
MffElements == {[tag |-> "div", cls |-> c, text |-> t] : c \in MffClasses, t \in MffTexts}
               \cup {[tag |-> "li", cls |-> "plan-item", text |-> t] : t \in MffTexts}

RECURSIVE SeqsUpTo(_, _)
SeqsUpTo(S, n) ==
    IF n = 0 THEN {<<>>}
    ELSE LET shorter == SeqsUpTo(S, n - 1)
         IN  shorter \cup {Append(s, x) : s \in {t \in shorter : Len(t) = n - 1}, x \in S}

MffDocuments == SeqsUpTo(MffElements, MaxElements)

InitMffExtract ==
    /\ IdleExcept("extract")
    /\ soup \in MffDocuments
    /\ extracted = NotRun

\* plans_data = self._extract_plans(soup)
RunExtractPlans ==
    /\ extracted = NotRun
    /\ extracted' = [run |-> TRUE, plans |-> ExtractPlans(soup)]
    /\ UNCHANGED <<soup, nonExtractVars>>

NextMffExtract == RunExtractPlans

SpecMffExtract == InitMffExtract /\ [][NextMffExtract]_vars

\* C9 (strategy chain progression), as claimed: when some selector of the
\* chain, or the div scan, yields a candidate with an account size, the
\* result of _extract_plans is not empty.
C9_ChainProgresses ==
    extracted.run =>
        ((\/ \E n \in 1..Len(MffSelectors) : MffYield(MffSelect(soup, MffSelectors[n])) # <<>>
          \/ MffYield(MffDivScan(soup)) # <<>>)
         => extracted.plans # <<>>)

(***************************************************************************)
(* Apex Trader Funding: scraper_apex.py.  A pricing card is                *)
(* [title, capital, rows, price, href, nested]: the texts of               *)
(* `.pricing__item-top h3` and `h6`, the `.pricing__list-item` rows, the   *)
(* text of `.pricing__item-bottom p` and the href of its link ("none"      *)
(* without a link); nested tells whether pricing__item-top and             *)
(* pricing__item-bottom are elements inside the card or classes of the     *)
(* card element itself.  A row is [label, gap, value]: its text is the     *)
(* label, white space if gap, and the value.                               *)
(***************************************************************************)

ApexSize(tok) ==  \* r'(\d+K)'
    CASE tok \in {"25K", "50K", "100K"} -> tok [] OTHER -> ""
ApexMoney(tok) ==  \* r'\$([0-9,]+)'
    CASE tok = "$1,500" -> "1,500" [] tok = "$3,000" -> "3,000" [] tok = "$625" -> "625"
      [] tok = "$25,000" -> "25,000" [] tok = "$50,000" -> "50,000" [] OTHER -> ""
ApexPrice(tok) ==  \* r'\$(\d+)/Month'
    CASE tok = "$147/Month" -> "147" [] tok = "$137/Month" -> "137"
      [] tok = "$167/Month" -> "167" [] OTHER -> ""

\* The text of a row, as get_text(strip=True) gives it.
RowText(row) == IF row.gap THEN row.label \o " " \o row.value ELSE row.label \o row.value

\* r'<label>\s+\$([0-9,]+)' on a row with that label
RowMoney(row) == IF row.gap THEN ApexMoney(row.value) ELSE ""

\* r'<label>\s+(.+)' on a row with that label, stripped
RowRest(row) == IF row.gap THEN row.value ELSE ""

\* The body of `for list_item in list_items`: the if/elif chain on the row's
\* text, applied to the dict built so far.
ApexRow(plan_data, row) ==
    IF row.label = "Profit Goal"
    THEN IF RowMoney(row) # ""
         THEN Update(plan_data, "profit_goal" :> ("$" \o RowMoney(row))) ELSE plan_data
    ELSE IF row.label = "Contracts"
    THEN IF RowRest(row) # ""
         THEN Update(plan_data, "contracts" :> RowRest(row)) ELSE plan_data
    ELSE IF row.label = "Trailing Threshold"
    THEN IF row.value = "None"
         THEN Update(plan_data, "trailing_threshold" :> "None")
         ELSE IF RowMoney(row) # ""
         THEN Update(plan_data, "trailing_threshold" :> ("$" \o RowMoney(row)))
         ELSE plan_data
    ELSE IF row.label = "Daily Drawdown"
    THEN IF RowMoney(row) # ""
         THEN Update(plan_data, "daily_drawdown" :> ("$" \o RowMoney(row))) ELSE plan_data
    ELSE IF row.label = "Scaling"
    THEN IF row.value = "None"
         THEN Update(plan_data, "scaling" :> "None")
         ELSE IF RowRest(row) # ""
         THEN Update(plan_data, "scaling" :> RowRest(row)) ELSE plan_data
    ELSE IF row.label = "Real-Time Data Fees"
    THEN Update(plan_data, "real_time_data" :>
                    (IF row.value = "Included" THEN "Included" ELSE RowText(row)))
    ELSE plan_data

RECURSIVE ApexRows(_, _, _)
ApexRows(plan_data, rows, i) ==
    IF i > Len(rows) THEN plan_data
    ELSE ApexRows(ApexRow(plan_data, rows[i]), rows, i + 1)

\* The part of the dict read from `.pricing__item-top`: account size and
\* trial type from the h3, starting capital from the h6.
ApexTop(card) ==
    (IF card.title # <<>>
     THEN (IF Search(ApexSize, card.title) # ""
           THEN "account_size" :> ("$" \o Search(ApexSize, card.title)) ELSE <<>>) @@
          ("trial_type" :> (IF Mentions(card.title, {"FULL", "Full"}) THEN "Full Account"
                            ELSE IF Mentions(card.title, {"STATIC", "Static"})
                            THEN "Static Account" ELSE "Account"))
     ELSE <<>>) @@
    (IF Search(ApexMoney, card.capital) # ""
     THEN "starting_capital" :> ("$" \o Search(ApexMoney, card.capital)) ELSE <<>>)

\* The part read from `.pricing__item-bottom`: the price and the signup link.
ApexBottom(card) ==
    (IF Search(ApexPrice, card.price) # ""
     THEN ("sale_price" :> ("$" \o Search(ApexPrice, card.price) \o "/Month")) @@
          ("monthly_price" :> ("$" \o Search(ApexPrice, card.price)))
     ELSE <<>>) @@
    (IF card.href # "none"
     THEN ("signup_link" :> card.href) @@
          (IF card.href = "https://wealthcharts.com/apex"
           THEN "platform" :> "WealthCharts" ELSE <<>>)
     ELSE <<>>)

\* _extract_plan_from_pricing_item(item).  An item is [part, card]: the
\* element that the selector matched is the card itself ("item") or, since
\* '[class*="pricing__item"]' also matches them, its `.pricing__item-top` or
\* `.pricing__item-bottom` child; select() sees the descendants of item only.
ExtractPlanFromPricingItem(item) ==
    CASE item.part = "top" -> ApexTop(item.card)
      [] item.part = "bottom" -> ApexBottom(item.card)
      [] OTHER -> ApexBottom(item.card) @@ ApexRows(ApexTop(item.card), item.card.rows, 1)

\* all_pricing_items: the set of the elements the three selectors match.
AllPricingItems(cards) ==
    {[part |-> "item", card |-> cards[i]] : i \in 1..Len(cards)}
    \cup {[part |-> "top", card |-> cards[i]] : i \in {j \in 1..Len(cards) : cards[j].nested}}
    \cup {[part |-> "bottom", card |-> cards[i]] :
              i \in {j \in 1..Len(cards) : cards[j].nested}}

\* The orders in which a set can be iterated.
Orders(S) == {o \in [1..Cardinality(S) -> S] : \A i, j \in DOMAIN o : o[i] = o[j] => i = j}

\* _extract_pricing_plans(soup), with the set iterated in the given order
ExtractPricingPlans(cards, order) ==
    LET data == [i \in 1..Len(order) |-> ExtractPlanFromPricingItem(order[i])]
    IN  SelectSeq(data, LAMBDA d : Get(d, "account_size", "") # "")

\* _extract_business_name(soup): brand holds the texts of the elements the
\* selectors find, in selector order
ApexBrandTexts == {"Apex Trader Funding", "Apex Trader Funding - Futures Prop Firm"}
ExtractBusinessNameApex(brand) ==
    LET hit == SelectSeq(brand, LAMBDA t : t \in ApexBrandTexts)
    IN  IF hit = <<>> THEN "Apex Trader Funding" ELSE hit[1]

\* r'(\d+\.?\d*)\s*(?:out of 5|/5|stars?)'
TrustpilotText(tok) ==
    CASE tok = "4.8 out of 5" -> "4.8" [] tok = "Rated 4.5/5" -> "4.5" [] OTHER -> ""

\* _extract_trustpilot_score(soup): widgets holds the elements the trustpilot
\* selectors find, in selector order, each [score, text]: the value of its
\* first non-empty data-score, data-rating or data-stars attribute, and its text
ExtractTrustpilotScore(widgets, default) ==
    LET hit == SelectSeq(widgets,
                         LAMBDA w : w.score # "" \/ Search(TrustpilotText, w.text) # "")
    IN  IF hit = <<>> THEN default
        ELSE IF hit[1].score # "" THEN hit[1].score
        ELSE Search(TrustpilotText, hit[1].text)

\* the discount patterns, r'(?:code|coupon):\s*([A-Z0-9]+)' and the like
PromoCode(tok) ==
    CASE tok = "code: SAVE20" -> "SAVE20" [] tok = "use code APEX80" -> "APEX80" [] OTHER -> ""

\* `len(text) < 20 and text.isupper()`
LooksLikeCode(text) == text \in {"SAVE20", "APEX80", "90% OFF"}

\* _extract_discount_codes(soup): promo is the text of the page, badges the
\* texts of the elements the discount selectors find, in selector order
ExtractDiscountCodes(promo, badges) ==
    IF Search(PromoCode, promo) # "" THEN Search(PromoCode, promo)
    ELSE IF SelectSeq(badges, LooksLikeCode) # <<>> THEN SelectSeq(badges, LooksLikeCode)[1]
    ELSE "Contact for codes"

\* TradingPlan(...) of scraper_apex.py
TradingPlan(business_name, account_size, sale_price, funded_full_price, discount_code,
            trial_type, trustpilot_score, profit_goal, additional_info) ==
    [business_name |-> business_name, account_size |-> account_size,
     sale_price |-> sale_price, funded_full_price |-> funded_full_price,
     discount_code |-> discount_code, trial_type |-> trial_type,
     trustpilot_score |-> trustpilot_score, profit_goal |-> profit_goal,
     additional_info |-> additional_info]

\* The fields the dataclass declares.
PlanFields == {"business_name", "account_size", "sale_price", "funded_full_price",
               "discount_code", "trial_type", "trustpilot_score", "profit_goal",
               "additional_info"}

\* fallback_plans of _create_fallback_plans
ApexFallbackData == <<
    [account_size |-> "$25K", sale_price |-> "$147/Month", profit_goal |-> "$1,500",
     starting_capital |-> "$25,000", contracts |-> "4(40 Micros)",
     trailing_threshold |-> "$1,500", trial_type |-> "Full Account"],
    [account_size |-> "$50K", sale_price |-> "$167/Month", profit_goal |-> "$3,000",
     starting_capital |-> "$50,000", contracts |-> "10(100 Micros)",
     trailing_threshold |-> "$2,500", trial_type |-> "Full Account"],
    [account_size |-> "$100K", sale_price |-> "$207/Month", profit_goal |-> "$6,000",
     starting_capital |-> "$100,000", contracts |-> "14(140 Micros)",
     trailing_threshold |-> "$3,000", trial_type |-> "Full Account"],
    [account_size |-> "$150K", sale_price |-> "$297/Month", profit_goal |-> "$9,000",
     starting_capital |-> "$150,000", contracts |-> "17(170 Micros)",
     trailing_threshold |-> "$5,000", trial_type |-> "Full Account"],
    [account_size |-> "$250K", sale_price |-> "$399/Month", profit_goal |-> "$15,000",
     starting_capital |-> "$250,000", contracts |-> "27(270 Micros)",
     trailing_threshold |-> "$6,500", trial_type |-> "Full Account"],
    [account_size |-> "$100K", sale_price |-> "$137/Month", profit_goal |-> "$2,000",
     starting_capital |-> "$100,000", contracts |-> "2(20 Micros)",
     trailing_threshold |-> "None", daily_drawdown |-> "$625", scaling |-> "None",
     trial_type |-> "Static Account"] >>

\* _create_fallback_plans(): the plans appended to self.plans
ApexFallbackPlan(plan_data) ==
    TradingPlan("Apex Trader Funding", plan_data.account_size, plan_data.sale_price, "",
                "Contact for codes", plan_data.trial_type, "4.5", plan_data.profit_goal,
                plan_data)

CreateFallbackPlans ==
    [i \in 1..Len(ApexFallbackData) |-> ApexFallbackPlan(ApexFallbackData[i])]

\* The plan object scrape_main_page creates from an extracted dict.
ApexPlanOf(plan_data, doc) ==
    TradingPlan(ExtractBusinessNameApex(doc.brand),
                Get(plan_data, "account_size", ""),
                Get(plan_data, "sale_price", ""),
                Get(plan_data, "funded_full_price", ""),
                ExtractDiscountCodes(doc.promo, doc.badges),
                Get(plan_data, "trial_type", "Full Account"),
                ExtractTrustpilotScore(doc.widgets, "4.5"),
                Get(plan_data, "profit_goal", ""),
                plan_data)

\* `for plan_data in plans: self.plans.append(TradingPlan(...))`
ApexPlansOf(plans_data, doc) ==
    [i \in DOMAIN plans_data |-> ApexPlanOf(plans_data[i], doc)]

ApexLivePlans(doc, order) == ApexPlansOf(ExtractPricingPlans(doc.cards, order), doc)

\* getattr(plan, key, None) is falsy
Falsy(plan, key) == key \notin DOMAIN plan \/ plan[key] = ""

\* setattr(plan, key, value)
SetAttr(plan, key, value) == Update(plan, key :> value)

\* `for key, value in new_plan_data.items(): if value and not getattr(plan,
\* key, None): setattr(plan, key, value)`
FillEmpty(plan, new_plan_data) ==
    LET fill == {k \in DOMAIN new_plan_data : new_plan_data[k] # "" /\ Falsy(plan, k)}
    IN  Update(plan, [k \in fill |-> new_plan_data[k]])

\* `plan.account_size == account_size and plan.trial_type == trial_type`
SamePlan(plan, new_plan_data) ==
    /\ plan.account_size = Get(new_plan_data, "account_size", "")
    /\ plan.trial_type = Get(new_plan_data, "trial_type", "")

\* The index of the first plan of self.plans the candidate matches, 0 if none.
RECURSIVE FindPlan(_, _, _)
FindPlan(plans, new_plan_data, i) ==
    IF i > Len(plans) THEN 0
    ELSE IF SamePlan(plans[i], new_plan_data) THEN i
    ELSE FindPlan(plans, new_plan_data, i + 1)

\* The plan _merge_plan_data creates when no plan matches.
NewPlanFrom(new_plan_data) ==
    TradingPlan("Apex Trader Funding", Get(new_plan_data, "account_size", ""),
                Get(new_plan_data, "sale_price", ""),
                Get(new_plan_data, "funded_full_price", ""), "Contact for codes",
                Get(new_plan_data, "trial_type", "Account"), "4.5",
                Get(new_plan_data, "profit_goal", ""), new_plan_data)

\* Mutant of MergePlanData: the candidate's values replace those of the plan.
MergePlanDataOverwrite(plans, new_plan_data) ==
    LET i == FindPlan(plans, new_plan_data, 1)
    IN  IF i # 0
        THEN [plans EXCEPT ![i] = Update(plans[i],
                 [k \in {x \in DOMAIN new_plan_data : new_plan_data[x] # ""} |->
                     new_plan_data[k]])]
        ELSE Append(plans, NewPlanFrom(new_plan_data))

\* _merge_plan_data(new_plan_data): self.plans afterwards
MergePlanData(plans, new_plan_data) ==
    LET i == FindPlan(plans, new_plan_data, 1)
    IN  IF i # 0
        THEN [plans EXCEPT ![i] = FillEmpty(plans[i], new_plan_data)]
        ELSE Append(plans, NewPlanFrom(new_plan_data))

(***************************************************************************)
(* SpecMerge: _merge_plan_data called again and again on one Apex scraper  *)
(* instance.  self.plans starts as the constructor leaves it or as         *)
(* scrape_main_page leaves it; every call is recorded in merges with the   *)
(* candidate, self.plans before and after, and the index of the plan the   *)
(* loop stopped at (0 when it appended a new plan).                        *)
(***************************************************************************)

MaxMerges == 4

Row(label, value) == [label |-> label, gap |-> TRUE, value |-> value]

ApexCard(title, capital, rows, price) ==
    [title |-> title, capital |-> capital, rows |-> rows, price |-> price, href |-> "none",
     nested |-> TRUE]

\* Pricing cards as the Apex pages show them.
Card25Plain == ApexCard(<<"25K", "FULL">>, <<>>, <<>>, <<"$147/Month">>)
Card25Full == ApexCard(<<"25K", "FULL">>, <<"$25,000">>,
                       <<Row("Profit Goal", "$1,500")>>, <<"$147/Month">>)
Card25Promo == ApexCard(<<"25K", "FULL">>, <<"$25,000">>,
                        <<Row("Profit Goal", "$3,000")>>, <<"$137/Month">>)
Card100Static == ApexCard(<<"100K", "STATIC">>, <<>>,
                          <<Row("Daily Drawdown", "$625")>>, <<"$137/Month">>)

WholeCard(card) == [part |-> "item", card |-> card]

ApexPage(cards) ==
    [brand |-> <<"Apex Trader Funding">>, widgets |-> <<>>, promo |-> <<>>, badges |-> <<>>,
     cards |-> cards]

\* self.plans before the first call: empty as constructed, the fallback plans,
\* or the plans of a page with one plain card.
MergeStarts ==
    {<<>>, CreateFallbackPlans}
    \cup {ApexLivePlans(ApexPage(<<Card25Plain>>), o) :
              o \in Orders(AllPricingItems(<<Card25Plain>>))}

\* A candidate without a trial_type key.
NoTypeCandidate == [account_size |-> "$50K", sale_price |-> "$167/Month"]

\* The candidates handed to _merge_plan_data.
MergeCandidates ==
    {ExtractPlanFromPricingItem(WholeCard(c)) : c \in {Card25Full, Card25Promo, Card100Static}}
    \cup {NoTypeCandidate}

InitMerge ==
    /\ IdleExcept("merge")
    /\ self_plans \in MergeStarts
    /\ merges = <<>>

\* self._merge_plan_data(new_plan_data)
MergeCall ==
    /\ Len(merges) < MaxMerges
    /\ \E new_plan_data \in MergeCandidates :
         /\ self_plans' = MergePlanData(self_plans, new_plan_data)
         /\ merges' = Append(merges, [data |-> new_plan_data, before |-> self_plans,
                                      hit |-> FindPlan(self_plans, new_plan_data, 1),
                                      after |-> self_plans'])
    /\ UNCHANGED nonMergeVars

NextMerge == MergeCall

SpecMerge == InitMerge /\ [][NextMerge]_vars


\* The declared fields of a plan other than additional_info, and every
\* attribute set on it later: the attributes whose values are strings.
TextKeys(plan) == DOMAIN plan \ {"additional_info"}

\* C6 (merge never overwrites): in every _merge_plan_data call that matched an
\* existing plan, each attribute of that plan that was non-empty before has the
\* same value after; an attribute that changed or appeared was empty or absent
\* before and is the candidate's non-empty value; self.plans keeps its length
\* and every other plan is unchanged.
C6_MergeNeverOverwrites ==
    \A n \in DOMAIN merges :
        LET m == merges[n]
        IN  m.hit # 0 =>
              /\ Len(m.after) = Len(m.before)
              /\ \A j \in DOMAIN m.before : j # m.hit => m.after[j] = m.before[j]
              /\ m.after[m.hit].additional_info = m.before[m.hit].additional_info
              /\ \A k \in TextKeys(m.before[m.hit]) :
                    m.before[m.hit][k] # "" =>
                        /\ k \in DOMAIN m.after[m.hit]
                        /\ m.after[m.hit][k] = m.before[m.hit][k]
              /\ \A k \in TextKeys(m.after[m.hit]) :
                    (k \notin DOMAIN m.before[m.hit] \/ m.after[m.hit][k] # m.before[m.hit][k])
                        => /\ Falsy(m.before[m.hit], k)
                           /\ Get(m.data, k, "") # ""
                           /\ m.after[m.hit][k] = m.data[k]

\* A call matched a plan whose price differs from the candidate's and whose
\* profit goal was empty: the price was kept and the profit goal filled in.
C6_Witness ==
    \E n \in DOMAIN merges :
        LET m == merges[n]
        IN  /\ m.hit # 0
            /\ m.before[m.hit].sale_price = "$147/Month"
            /\ m.data.sale_price = "$137/Month"
            /\ m.after[m.hit].sale_price = "$147/Month"
            /\ m.before[m.hit].profit_goal = ""
            /\ m.after[m.hit].profit_goal = "$3,000"

\* The candidate denotes the plan: same plan name (account size and trial
\* type), same account size and same price; the source is the same for every
\* plan of the instance.
SameIdentity(plan, data) ==
    /\ plan.account_size = Get(data, "account_size", "")
    /\ plan.account_size \o " " \o plan.trial_type
         = Get(data, "account_size", "") \o " " \o Get(data, "trial_type", "")
    /\ plan.sale_price = Get(data, "sale_price", "")

\* C7 (merge identity), as claimed: a call merges the candidate into a plan
\* only if the two agree on plan name, account size and price, and a candidate
\* that differs from every plan in one of these becomes an additional plan.
C7_MergeIdentity ==
    \A n \in DOMAIN merges :
        LET m == merges[n]
        IN  /\ m.hit # 0 => SameIdentity(m.before[m.hit], m.data)
            /\ (\A j \in DOMAIN m.before : ~SameIdentity(m.before[j], m.data))
                  => /\ m.hit = 0
                     /\ Len(m.after) = Len(m.before) + 1

\* The declared fields of every plan of a list.
Declared(list) == [j \in DOMAIN list |-> [k \in PlanFields |-> list[j][k]]]

\* C8 (merge idempotence), as claimed: when a list of candidates is applied
\* and then the same list is applied again, self.plans after the second
\* application has the same number of plans with the same field values as
\* after the first.
C8_MergeIdempotent ==
    \A n \in DOMAIN merges : \A len \in 1..MaxMerges :
        (/\ n + 2 * len - 1 <= Len(merges)
         /\ \A d \in 0..(len - 1) : merges[n + d].data = merges[n + len + d].data)
            => Declared(merges[n + 2 * len - 1].after) = Declared(merges[n + len - 1].after)


(***************************************************************************)
(* populate_trustpilot_scores.py.  A URL is [blank, netloc, path]: blank   *)
(* for an empty or NaN cell, netloc the labels of urlparse(url).netloc     *)
(* (none when the URL has no scheme), path the rest.                       *)
(***************************************************************************)

Url(netloc, path) == [blank |-> FALSE, netloc |-> netloc, path |-> path]
BlankUrl == [blank |-> TRUE, netloc |-> <<>>, path |-> ""]

\* `domain = parsed_url.netloc` and `if domain.startswith('www.'): domain =
\* domain[4:]`
DomainOf(source_url) ==
    IF source_url.netloc # <<>> /\ Head(source_url.netloc) = "www"
    THEN Tail(source_url.netloc) ELSE source_url.netloc

\* What get_trustpilot_score(source_url) can return, depending on what
\* Trustpilot answers: a rating found on the page, or "Not found".
TrustpilotResults == {"4.8", "3.9", "Not found"}

\* Mutant of InCache: the cache is never hit.
InCacheNever(domain, scores) == FALSE

\* `domain in domain_scores`
InCache(domain, scores) == domain \in DOMAIN scores

\* `df.at[index, 'trustpilot_score'] = score`
SetScore(frame, index, score) == [frame EXCEPT ![index].trustpilot_score = score]

(***************************************************************************)
(* SpecCache: one run of populate_trustpilot_scores, one row per step.     *)
(***************************************************************************)

MaxRows == 3

CacheUrls ==
    {Url(<<"www", "apextraderfunding", "com">>, "/pricing"),
     Url(<<"apextraderfunding", "com">>, ""),
     Url(<<"tradeify", "co">>, ""),
     Url(<<>>, "tradeify.co/plans"),
     BlankUrl}

\* The CSV files: up to MaxRows rows, the new trustpilot_score column empty.
CacheFrames ==
    SeqsUpTo({[source_url |-> u, trustpilot_score |-> ""] : u \in CacheUrls}, MaxRows)

InitCache ==
    /\ IdleExcept("cache")
    /\ df \in CacheFrames
    /\ domain_scores = <<>>
    /\ cursor = [pc |-> "loop", index |-> 1]
    /\ lookups = <<>>

\* `if pd.isna(source_url) or not source_url: continue`
SkipRow ==
    /\ cursor.pc = "loop" /\ cursor.index <= Len(df)
    /\ df[cursor.index].source_url.blank
    /\ cursor' = [cursor EXCEPT !.index = cursor.index + 1]
    /\ UNCHANGED <<df, domain_scores, lookups, nonCacheVars>>

\* The domain is in the cache: the row gets the cached score.
CachedRow ==
    /\ cursor.pc = "loop" /\ cursor.index <= Len(df)
    /\ ~df[cursor.index].source_url.blank
    /\ LET domain == DomainOf(df[cursor.index].source_url)
       IN  /\ InCache(domain, domain_scores)
           /\ df' = SetScore(df, cursor.index, domain_scores[domain])
    /\ cursor' = [cursor EXCEPT !.index = cursor.index + 1]
    /\ UNCHANGED <<domain_scores, lookups, nonCacheVars>>

\* The domain is not in the cache: get_trustpilot_score is called and its
\* result cached and written to the row.
LookupRow ==
    /\ cursor.pc = "loop" /\ cursor.index <= Len(df)
    /\ ~df[cursor.index].source_url.blank
    /\ LET domain == DomainOf(df[cursor.index].source_url)
       IN  /\ ~InCache(domain, domain_scores)
           /\ \E score \in TrustpilotResults :
                /\ domain_scores' = Update(domain_scores, domain :> score)
                /\ df' = SetScore(df, cursor.index, score)
    /\ lookups' = Append(lookups, df[cursor.index].source_url)
    /\ cursor' = [cursor EXCEPT !.index = cursor.index + 1]
    /\ UNCHANGED nonCacheVars

\* `df.to_csv(csv_file, index=False)`
SaveCsv ==
    /\ cursor.pc = "loop" /\ cursor.index > Len(df)
    /\ cursor' = [cursor EXCEPT !.pc = "saved"]
    /\ UNCHANGED <<df, domain_scores, lookups, nonCacheVars>>

NextCache == SkipRow \/ CachedRow \/ LookupRow \/ SaveCsv

SpecCache == InitCache /\ [][NextCache]_vars

\* The rows the loop has handled that have a URL.
Scored == {i \in 1..Len(df) : i < cursor.index /\ ~df[i].source_url.blank}

\* C5 (per-domain cache): in a run of populate_trustpilot_scores no two
\* get_trustpilot_score calls are made for the same domain key, and all the
\* rows handled so far that have the same domain key hold the same score.
C5_OneLookupPerDomain ==
    /\ \A i, j \in DOMAIN lookups :
          DomainOf(lookups[i]) = DomainOf(lookups[j]) => i = j
    /\ \A i, j \in Scored :
          DomainOf(df[i].source_url) = DomainOf(df[j].source_url)
              => df[i].trustpilot_score = df[j].trustpilot_score

\* A finished run over three rows, the first and the third of one domain
\* (with and without www.) and another domain between them: two calls were
\* made and both rows of the first domain hold "Not found".
C5_Witness ==
    /\ cursor.pc = "saved"
    /\ Len(df) = 3
    /\ df[1].source_url = Url(<<"www", "apextraderfunding", "com">>, "/pricing")
    /\ df[2].source_url = Url(<<"tradeify", "co">>, "")
    /\ df[3].source_url = Url(<<"apextraderfunding", "com">>, "")
    /\ Len(lookups) = 2
    /\ df[1].trustpilot_score = "Not found"
    /\ df[3].trustpilot_score = "Not found"
    /\ df[2].trustpilot_score = "4.8"


(***************************************************************************)
(* Tradeify: scraper_tradeify.py.  A plan card is [heading, acc_type,      *)
(* number, period, attrs, wrapped]: the text of `.heading, h4`, of         *)
(* `.acc-type`, of `.price .number` and of `.price .period` ("none" for an *)
(* element that is not there), the `.plan-attr` rows as [label, value],    *)
(* and whether the `.plan` element sits in a `.plan-li` wrapper.           *)
(***************************************************************************)

TradeifySize(tok) ==  \* r'\$(\d+[kK])', upper-cased
    CASE tok \in {"$25k", "$25K"} -> "25K" [] tok \in {"$50k", "$50K"} -> "50K"
      [] tok \in {"$100k", "$100K"} -> "100K" [] tok \in {"$150k", "$150K"} -> "150K"
      [] tok \in {"$250k", "$250K"} -> "250K" [] OTHER -> ""
TradeifyMoney(value) ==  \* r'\$([0-9,]+)' at the start of the value
    CASE value = "$1,000" -> "1,000" [] value = "$2,000" -> "2,000"
      [] value = "$1,250" -> "1,250" [] OTHER -> ""
TradeifyDigits(value) ==  \* r'(\d+)' at the start of the value
    CASE value \in {"10", "10 days"} -> "10" [] value = "5" -> "5"
      [] value = "20%" -> "20" [] OTHER -> ""
TradeifyPercent(value) ==  \* r'(\d+%)' at the start of the value
    CASE value = "20%" -> "20%" [] value = "35%" -> "35%" [] OTHER -> ""

\* The body of `for attr_element in attr_elements`: the if/elif chain.
TradeifyAttr(plan_data, attr) ==
    IF attr.label = "Max Contracts:"
    THEN IF attr.value # ""
         THEN Update(plan_data, "max_contracts" :> attr.value) ELSE plan_data
    ELSE IF attr.label = "Daily Loss Limit"
    THEN IF attr.value = "None"
         THEN Update(plan_data, "daily_loss_limit" :> "None")
         ELSE IF TradeifyMoney(attr.value) # ""
         THEN Update(plan_data, "daily_loss_limit" :> ("$" \o TradeifyMoney(attr.value)))
         ELSE plan_data
    ELSE IF attr.label = "Trailing Max Drawdown:"
    THEN IF TradeifyMoney(attr.value) # ""
         THEN Update(plan_data, "trailing_max_drawdown" :> ("$" \o TradeifyMoney(attr.value)))
         ELSE plan_data
    ELSE IF attr.label = "Drawdown Mode:"
    THEN IF attr.value # ""
         THEN Update(plan_data, "drawdown_mode" :> attr.value) ELSE plan_data
    ELSE IF attr.label = "Min Trading Days to Payout:"
    THEN IF TradeifyDigits(attr.value) # ""
         THEN Update(plan_data, "min_trading_days" :> TradeifyDigits(attr.value))
         ELSE plan_data
    ELSE IF attr.label = "Consistency:"
    THEN IF TradeifyPercent(attr.value) # ""
         THEN Update(plan_data, "consistency" :> TradeifyPercent(attr.value)) ELSE plan_data
    ELSE IF attr.label = "Max Accounts:"
    THEN IF TradeifyDigits(attr.value) # ""
         THEN Update(plan_data, "max_accounts" :> TradeifyDigits(attr.value)) ELSE plan_data
    ELSE plan_data

RECURSIVE TradeifyAttrs(_, _, _)
TradeifyAttrs(plan_data, attrs, i) ==
    IF i > Len(attrs) THEN plan_data
    ELSE TradeifyAttrs(TradeifyAttr(plan_data, attrs[i]), attrs, i + 1)

\* "Set profit goal based on account size"
TradeifyProfitGoal(plan_data) ==
    LET account_size == Get(plan_data, "account_size", "")
    IN  IF account_size = "$25K" THEN Update(plan_data, "profit_goal" :> "$1,500")
        ELSE IF account_size = "$50K" THEN Update(plan_data, "profit_goal" :> "$3,000")
        ELSE IF account_size = "$100K" THEN Update(plan_data, "profit_goal" :> "$6,000")
        ELSE IF account_size = "$150K" THEN Update(plan_data, "profit_goal" :> "$9,000")
        ELSE plan_data

\* 'Straight to' in trial_type
StraightTo(trial_type) ==
    trial_type \in {"Straight to Sim Funded", "Straight to Funded"}

\* "Set funded full price"
TradeifyFundedPrice(plan_data) ==
    Update(plan_data, "funded_full_price" :>
        (IF Get(plan_data, "sale_price", "") # "" /\ StraightTo(Get(plan_data, "trial_type", ""))
         THEN plan_data["sale_price"] ELSE "N/A"))

\* _extract_tradeify_plan_from_element(element); the `.plan` element and its
\* `.plan-li` wrapper hold the same descendants
ExtractTradeifyPlanFromElement(card) ==
    LET head == (IF Search(TradeifySize, card.heading) # ""
                 THEN "account_size" :> ("$" \o Search(TradeifySize, card.heading))
                 ELSE <<>>) @@
                (IF card.acc_type # "none" THEN "trial_type" :> card.acc_type ELSE <<>>) @@
                (IF card.number # "none"
                 THEN "sale_price" :> (IF card.period # "none"
                                       THEN card.number \o " " \o card.period
                                       ELSE card.number)
                 ELSE <<>>)
    IN  TradeifyFundedPrice(TradeifyProfitGoal(TradeifyAttrs(head, card.attrs, 1)))

\* all_plans: the set of the elements the four selectors match
AllPlanElements(cards) ==
    {[part |-> "plan", card |-> cards[i]] : i \in 1..Len(cards)}
    \cup {[part |-> "plan-li", card |-> cards[i]] :
              i \in {j \in 1..Len(cards) : cards[j].wrapped}}

\* extract_plans_from_soup(soup, url), with the set iterated in the given order
ExtractPlansFromSoup(order) ==
    LET data == [i \in 1..Len(order) |-> ExtractTradeifyPlanFromElement(order[i].card)]
    IN  SelectSeq(data, LAMBDA d : Get(d, "account_size", "") # "")

\* `plan_data.get(key) or default`
GetOr(d, key, default) == IF Get(d, key, "") # "" THEN d[key] ELSE default

\* _create_trading_plan(plan_data, soup)
CreateTradingPlan(plan_data, doc) ==
    TradingPlan("Tradeify",
                Get(plan_data, "account_size", ""),
                Get(plan_data, "sale_price", ""),
                Get(plan_data, "funded_full_price", ""),
                GetOr(plan_data, "discount_code",
                      IF Search(PromoCode, doc.promo) # ""
                      THEN Search(PromoCode, doc.promo) ELSE "Contact for codes"),
                Get(plan_data, "trial_type", "Account"),
                GetOr(plan_data, "trustpilot_score",
                      ExtractTrustpilotScore(doc.widgets, "4.2")),
                Get(plan_data, "profit_goal", ""),
                plan_data)

\* `for plan_data in plans: self.plans.append(self._create_trading_plan(...))`
TradeifyPlansOf(plans_data, doc) ==
    [i \in DOMAIN plans_data |-> CreateTradingPlan(plans_data[i], doc)]

\* The plans scrape_all appends to self.plans for one page.
TradeifyLivePlans(doc, order) == TradeifyPlansOf(ExtractPlansFromSoup(order), doc)

\* get_fallback_plans()
TradeifyFallbackData == <<
    [account_size |-> "$25K", sale_price |-> "$349 one time fee",
     funded_full_price |-> "$349 one time fee", profit_goal |-> "$1,500",
     trial_type |-> "Straight to Sim Funded", max_contracts |-> "1 Minis (10 Micros)",
     daily_loss_limit |-> "None", trailing_max_drawdown |-> "$1,000",
     drawdown_mode |-> "End Of Day", min_trading_days |-> "10", consistency |-> "20%",
     max_accounts |-> "5"],
    [account_size |-> "$50K", sale_price |-> "$549 one time fee",
     funded_full_price |-> "$549 one time fee", profit_goal |-> "$3,000",
     trial_type |-> "Straight to Sim Funded", max_contracts |-> "2 Minis (20 Micros)",
     daily_loss_limit |-> "None", trailing_max_drawdown |-> "$2,000",
     drawdown_mode |-> "End Of Day", min_trading_days |-> "10", consistency |-> "20%",
     max_accounts |-> "5"],
    [account_size |-> "$100K", sale_price |-> "$949 one time fee",
     funded_full_price |-> "$949 one time fee", profit_goal |-> "$6,000",
     trial_type |-> "Straight to Sim Funded", max_contracts |-> "4 Minis (40 Micros)",
     daily_loss_limit |-> "None", trailing_max_drawdown |-> "$4,000",
     drawdown_mode |-> "End Of Day", min_trading_days |-> "10", consistency |-> "20%",
     max_accounts |-> "5"] >>

\* _create_trading_plan_from_dict(plan_data)
CreateTradingPlanFromDict(plan_data) ==
    TradingPlan("Tradeify",
                Get(plan_data, "account_size", ""),
                Get(plan_data, "sale_price", ""),
                Get(plan_data, "funded_full_price", ""),
                Get(plan_data, "discount_code", "Contact for codes"),
                Get(plan_data, "trial_type", "Account"),
                Get(plan_data, "trustpilot_score", "4.2"),
                Get(plan_data, "profit_goal", ""),
                plan_data)

\* Mutant of TradeifyFallbackPlans: the fallback data is empty.
TradeifyFallbackNone == <<>>

\* The plans scrape_all appends when nothing was scraped: one
\* _create_trading_plan_from_dict(plan_data) per fallback dict.
TradeifyFallbackPlans ==
    [i \in 1..Len(TradeifyFallbackData) |->
        CreateTradingPlanFromDict(TradeifyFallbackData[i])]

\* get_standardized_data() of the Tradeify scraper, whose source is
\* self.business_name: one record per plan of self.plans
Standardize(list, source) ==
    [i \in 1..Len(list) |->
        [business_name |-> list[i].business_name,
         plan_name |-> list[i].account_size \o " " \o list[i].trial_type,
         account_size |-> list[i].account_size,
         price_raw |-> list[i].sale_price,
         funded_price |-> list[i].funded_full_price,
         discount_code |-> list[i].discount_code,
         trial_type |-> list[i].trial_type,
         trustpilot_score |-> list[i].trustpilot_score,
         profit_goal |-> list[i].profit_goal,
         source |-> source]]

\* get_standardized_data() of the Apex scraper
StandardizeApex(list) == Standardize(list, "Apex Trader Funding")

\* The URLs of scrape_all: get_main_urls() + get_additional_urls()
TradeifyUrls == <<"https://tradeify.co", "https://tradeify.co/pricing",
                  "https://tradeify.co/plans", "https://tradeify.co/straight-to-funded",
                  "https://tradeify.co/evaluation-account",
                  "https://tradeify.co/sim-funded-account">>

\* The URLs of the Apex scraper: base_url and the additional_urls
ApexBaseUrl == "https://apextraderfunding.com"
ApexAdditionalUrls == <<"https://apextraderfunding.com/pricing",
                        "https://apextraderfunding.com/plans",
                        "https://apextraderfunding.com/evaluation",
                        "https://apextraderfunding.com/funded-accounts">>

(***************************************************************************)
(* My Funded Futures: scrape() of scraper_myfundedfuture.py.  Its          *)
(* TradingPlan has no additional_info field.                               *)
(***************************************************************************)

MffTradingPlan(business_name, account_size, sale_price, funded_full_price, discount_code,
               trial_type, trustpilot_score, profit_goal) ==
    [business_name |-> business_name, account_size |-> account_size,
     sale_price |-> sale_price, funded_full_price |-> funded_full_price,
     discount_code |-> discount_code, trial_type |-> trial_type,
     trustpilot_score |-> trustpilot_score, profit_goal |-> profit_goal]

\* fallback_data of _get_fallback_plans
MffFallbackData == <<
    [account_size |-> "$50K", sale_price |-> "$127/Month", profit_goal |-> "$3,000",
     trial_type |-> "Starter Plus"],
    [account_size |-> "$100K", sale_price |-> "$267/Month", profit_goal |-> "$6,000",
     trial_type |-> "Expert"],
    [account_size |-> "$150K", sale_price |-> "$377/Month", profit_goal |-> "$9,000",
     trial_type |-> "Eval To Live"],
    [account_size |-> "$25K", sale_price |-> "$97/Month", profit_goal |-> "$1,500",
     trial_type |-> "Starter Plus"],
    [account_size |-> "$200K", sale_price |-> "$497/Month", profit_goal |-> "$12,000",
     trial_type |-> "Expert"] >>

\* _get_fallback_plans()
MffFallbackPlans ==
    [i \in 1..Len(MffFallbackData) |->
        MffTradingPlan("My Funded Futures", MffFallbackData[i].account_size,
                       MffFallbackData[i].sale_price, "", "Contact for codes",
                       MffFallbackData[i].trial_type, "4.3", MffFallbackData[i].profit_goal)]

\* The plan object scrape() creates from one plan_data; the page's trustpilot
\* score and discount code are read as _extract_trustpilot_score and
\* _extract_discount_code read them.
MffPlanOf(plan_data, page) ==
    MffTradingPlan("My Funded Futures",
                   Get(plan_data, "account_size", ""),
                   Get(plan_data, "sale_price", ""),
                   Get(plan_data, "funded_full_price", ""),
                   IF Search(PromoCode, page.promo) # ""
                   THEN Search(PromoCode, page.promo) ELSE "Contact for codes",
                   Get(plan_data, "trial_type", ""),
                   IF page.score # "" THEN page.score ELSE "4.3",
                   Get(plan_data, "profit_goal", ""))

\* `for plan_data in plans_data: plans.append(TradingPlan(...))`
MffPlansOf(plans_data, page) ==
    [i \in DOMAIN plans_data |-> MffPlanOf(plans_data[i], page)]

MffLivePlans(page) == MffPlansOf(ExtractPlans(page.elements), page)

\* The records get_standardized_data() of the My Funded Futures scraper
\* builds from self.plans
StandardizeMff(list) == Standardize(list, "My Funded Futures")

\* `return plans if plans else self._get_fallback_plans()`, with the
\* strategies scrape() went through
MffReturn(live, yielded, div_scan) ==
    [plans |-> IF live # <<>> THEN live ELSE MffFallbackPlans,
     live |-> live # <<>>,
     yielded |-> yielded,
     div_scan |-> div_scan,
     fallback |-> live = <<>>]

\* scrape(): what it returns for an answer to its single GET
MffScrape(outcome) ==
    IF outcome.kind # "status" \/ outcome.status # 200
    THEN [plans |-> MffFallbackPlans, live |-> FALSE, yielded |-> FALSE,
          div_scan |-> FALSE, fallback |-> TRUE]
    ELSE MffReturn(MffLivePlans(outcome.content),
                   MffYield(MffFirstSelection(outcome.content.elements, 1)) # <<>>,
                   MffDivScanRuns(outcome.content.elements))


(***************************************************************************)
(* Spec: one run of main() of main.py.  The three scrapers run one after   *)
(* the other, each in its own try block; a step is one URL of a scraper's  *)
(* loop or the end of a scraper's try block.  headers, events and          *)
(* self_plans belong to the scraper instance in use; events holds what its *)
(* latest request did.                                                     *)
(***************************************************************************)

\* The pages the sites answer with.
TradeifyPage(cards) == [cards |-> cards, widgets |-> <<>>, promo |-> <<>>]

TradeifyCard ==
    [heading |-> <<"$25k", "account">>, acc_type |-> "Straight to Sim Funded",
     number |-> "$349", period |-> "one time fee",
     attrs |-> <<[label |-> "Trailing Max Drawdown:", value |-> "$1,000"]>>,
     wrapped |-> TRUE]

TradeifyPages == {TradeifyPage(<<>>), TradeifyPage(<<TradeifyCard>>)}

ApexPages == {ApexPage(<<>>), ApexPage(<<Card25Full>>)}

MffPage(elements) == [elements |-> elements, promo |-> <<>>, score |-> ""]

MffPages ==
    {MffPage(<<>>),
     MffPage(<<[tag |-> "div", cls |-> "pricing-card",
                text |-> <<"Starter", "$50K", "$127/month", "Profit Target: $3,000">>]>>),
     MffPage(<<[tag |-> "div", cls |-> "box", text |-> <<"$50k", "$127/month">>]>>),
     MffPage(<<[tag |-> "div", cls |-> "plan-card", text |-> <<"Contact us">>],
               [tag |-> "li", cls |-> "plan-item",
                text |-> <<"50,000", "$100K", "Expert", "$267 monthly">>]>>)}

\* The answers to the attempts of one _make_request call, with the user agent
\* random.choice picks.
Script(o1, o2, o3) ==
    <<[ua |-> UserAgents[1], outcome |-> o1], [ua |-> UserAgents[1], outcome |-> o2],
      [ua |-> UserAgents[1], outcome |-> o3]>>

Denied == StatusOutcome(403, <<>>)

Scripts(pages) ==
    {Script(Denied, Denied, Denied),
     Script(RequestException, StatusOutcome(429, <<>>), StatusOutcome(500, <<>>)),
     Script(OtherException, Denied, Denied)}
    \cup {Script(StatusOutcome(200, p), Denied, Denied) : p \in pages}
    \cup {Script(Denied, StatusOutcome(200, p), Denied) : p \in pages}

\* The answers to the single GET of the My Funded Futures scraper.
MffOutcomes ==
    {Denied, StatusOutcome(500, <<>>), RequestException, OtherException}
    \cup {StatusOutcome(200, p) : p \in MffPages}

\* Every GET of a request was answered 403.
AllDenied(evs) ==
    /\ Gets(evs) # <<>>
    /\ \A i \in DOMAIN Gets(evs) : Gets(evs)[i].answer = 403

\* No GET of a request was answered 200 or ended in an exception that is no
\* requests.RequestException.
AllFailed(evs) ==
    \A i \in DOMAIN Gets(evs) :
        /\ Gets(evs)[i].answer # 200
        /\ Gets(evs)[i].error \in {"", "RequestException"}

\* What is noted of a call of a scraper entry point: whether it has returned,
\* whether all its GETs so far were answered 403, whether all of them failed
\* (a status other than 200 or a request exception) and how many were made,
\* whether the structured
\* selectors yielded a record with an account size, whether the div scan and
\* the static fallback were run, and the number of plans it returned.
NoCall == [returned |-> FALSE, denied |-> TRUE, failed |-> TRUE, gets |-> 0,
           yielded |-> FALSE,
           div_scan |-> FALSE, fallback |-> FALSE, plans |-> 0]

\* A request and the extraction that followed it are noted.
Noted(c, evs, yielded) ==
    [c EXCEPT !.denied = @ /\ AllDenied(evs),
              !.failed = @ /\ AllFailed(evs),
              !.gets = @ + Len(Gets(evs)),
              !.yielded = @ \/ yielded]

NotStarted == [status |-> "pending", data |-> <<>>]

Filled(n, value) == [i \in 1..n |-> value]

\* Mutant of NeedsFallback: the fallback is used whatever was scraped.
NeedsFallbackAlways(list) == TRUE

\* `if not self.plans:` of scrape_all and scrape_main_page
NeedsFallback(list) == list = <<>>

\* The rest of an iteration of `for url in all_urls` of scrape_all once the
\* request r is done: the extraction and the sleep; an exception skips both.
TradeifyAfterRequest(r, found) ==
    [headers |-> r.headers,
     found |-> IF ~r.raised /\ r.response # None THEN found ELSE <<>>,
     events |-> IF r.raised THEN r.events ELSE r.events \o <<SleepEvent(1, 3)>>]

\* The page of a response, an empty page if there is no response.
PageOf(response) == IF response = None THEN TradeifyPage(<<>>) ELSE response.content

\* One iteration of `for url in all_urls` of scrape_all.
TradeifyIteration(r, order) ==
    TradeifyAfterRequest(r, TradeifyLivePlans(PageOf(r.response), order))

\* The pages a script answers with.
PagesOf(script) ==
    {script[i].outcome.content : i \in {j \in DOMAIN script :
        script[j].outcome.kind = "status" /\ script[j].outcome.status = 200}}

\* The orders in which the plan elements of the page a script answers with, if
\* it does, can be iterated.
TradeifyOrders(script) ==
    IF PagesOf(script) = {} THEN {<<>>}
    ELSE UNION {Orders(AllPlanElements(p.cards)) : p \in PagesOf(script)}

\* The same for the pricing items of an Apex page.
ApexOrders(script) ==
    IF PagesOf(script) = {} THEN {<<>>}
    ELSE UNION {Orders(AllPricingItems(p.cards)) : p \in PagesOf(script)}

\* The end of scrape_main_page(): the plans it returns, given whether a
\* response came and the plans made of it.
ApexReturn(live, fallback) ==
    [plans |-> IF fallback THEN live \o CreateFallbackPlans ELSE live,
     origin |-> IF fallback
                THEN Filled(Len(live), "live") \o Filled(Len(CreateFallbackPlans), "fallback")
                ELSE Filled(Len(live), "live"),
     yielded |-> live # <<>>,
     fallback |-> fallback]

\* scrape_main_page() of the Apex scraper on a fresh instance, once the
\* request is done with response as its result.
ApexScrapeMainPage(response, live) ==
    IF response = None THEN ApexReturn(<<>>, TRUE)
    ELSE ApexReturn(live, NeedsFallback(live))

RECURSIVE MergeAll(_, _, _)
MergeAll(list, candidates, i) ==
    IF i > Len(candidates) THEN list
    ELSE MergeAll(MergePlanData(list, candidates[i]), candidates, i + 1)

\* One iteration of `for url in additional_urls` of scrape_additional_pages,
\* once the request is done with response as its result: self.plans afterwards.
ApexIteration(list, response, order) ==
    IF response = None THEN list
    ELSE MergeAll(list, ExtractPricingPlans(response.content.cards, order), 1)

Scrapers == {"tradeify", "apex", "mff"}
EntryCalls == {"scrape_all", "scrape_main_page", "scrape", "scrape_again"}

Init ==
    /\ IdleExcept("main")
    /\ pc = [at |-> "tradeify", url |-> 1]
    /\ all_data = <<>>
    /\ runs = [s \in Scrapers |-> NotStarted]
    /\ calls = [c \in EntryCalls |-> NoCall]
    /\ origin = [plans |-> <<>>, data |-> <<>>]

\* Mutant of AfterApexError: the exception ends the run.
AfterApexErrorAbort == [at |-> "end", url |-> 0]

\* Where main() goes on after `except Exception` of the Apex try block.
AfterApexError == [at |-> "mff", url |-> 0]

\* The effect of an iteration of scrape_all.
TradeifyUrlDone(it) ==
    /\ headers' = it.headers
    /\ events' = it.events
    /\ self_plans' = self_plans \o it.found
    /\ origin' = [origin EXCEPT !.plans = @ \o Filled(Len(it.found), "live")]
    /\ calls' = [calls EXCEPT !.scrape_all = Noted(@, it.events, it.found # <<>>)]

\* tradeify_scraper.scrape_all(): one URL of its loop.
TradeifyUrl ==
    /\ pc.at = "tradeify" /\ pc.url <= Len(TradeifyUrls)
    /\ \E script \in Scripts(TradeifyPages) :
         \E order \in TradeifyOrders(script) :
            TradeifyUrlDone(TradeifyIteration(
                MakeRequest(headers, TradeifyUrls[pc.url], DefaultMaxRetries, script), order))
    /\ pc' = [pc EXCEPT !.url = @ + 1]
    /\ UNCHANGED <<call, extractVars, convertVars, scoreVars, merges, cacheVars, all_data, runs>>

\* The end of the Tradeify try block with list as self.plans and from as the
\* origins of its plans: get_standardized_data() and all_data.extend.
TradeifyExtend(list, from, fallback) ==
    /\ calls' = [calls EXCEPT !.scrape_all.returned = TRUE,
                              !.scrape_all.fallback = fallback,
                              !.scrape_all.plans = Len(list)]
    /\ runs' = [runs EXCEPT !.tradeify = [status |-> "ok",
                                          data |-> Standardize(list, "Tradeify")]]
    /\ all_data' = all_data \o Standardize(list, "Tradeify")
    /\ origin' = [plans |-> <<>>, data |-> origin.data \o from]

\* The end of scrape_all (the fallback when nothing was scraped) and the rest
\* of the Tradeify try block.
TradeifyDone ==
    /\ pc.at = "tradeify" /\ pc.url > Len(TradeifyUrls)
    /\ IF NeedsFallback(self_plans)
       THEN TradeifyExtend(self_plans \o TradeifyFallbackPlans,
                           origin.plans \o Filled(Len(TradeifyFallbackPlans), "fallback"),
                           TRUE)
       ELSE TradeifyExtend(self_plans, origin.plans, FALSE)
    /\ pc' = [at |-> "apex", url |-> 0]
    /\ headers' = DefaultHeaders
    /\ events' = <<>>
    /\ self_plans' = <<>>
    /\ UNCHANGED <<call, extractVars, convertVars, scoreVars, merges, cacheVars>>

\* An exception leaves the Apex try block.
ApexRaised(r) ==
    /\ r.raised
    /\ headers' = r.headers
    /\ events' = r.events
    /\ pc' = AfterApexError
    /\ runs' = [runs EXCEPT !.apex.status = "raised"]
    /\ UNCHANGED <<self_plans, origin>>

\* scrape_main_page() returns m after the request r; then `if apex_plans:`.
ApexMainPageDone(r, m) ==
    /\ ~r.raised
    /\ headers' = r.headers
    /\ events' = r.events
    /\ calls' = [calls EXCEPT !.scrape_main_page =
                    [Noted(@, r.events, m.yielded) EXCEPT !.returned = TRUE,
                                                          !.fallback = m.fallback,
                                                          !.plans = Len(m.plans)]]
    /\ pc' = IF m.plans # <<>> THEN [at |-> "apex", url |-> 1]
             ELSE [at |-> "apex", url |-> Len(ApexAdditionalUrls) + 1]
    /\ self_plans' = m.plans
    /\ origin' = [origin EXCEPT !.plans = m.origin]
    /\ UNCHANGED runs

\* apex_scraper.scrape_main_page(), its request being r.
ApexMainPageWith(r, order) ==
    \/ /\ ApexRaised(r)
       /\ calls' = [calls EXCEPT !.scrape_main_page = Noted(@, r.events, FALSE)]
    \/ ApexMainPageDone(r, ApexScrapeMainPage(r.response,
                                              ApexLivePlans(PageOf(r.response), order)))

\* apex_scraper.scrape_main_page() and `if apex_plans:`
ApexMainPage ==
    /\ pc.at = "apex" /\ pc.url = 0
    /\ \E script \in Scripts(ApexPages) :
         \E order \in ApexOrders(script) :
            ApexMainPageWith(MakeRequest(headers, ApexBaseUrl, DefaultMaxRetries, script),
                             order)
    /\ UNCHANGED <<call, extractVars, convertVars, scoreVars, merges, cacheVars, all_data>>

\* An iteration of scrape_additional_pages ends with list as self.plans.
ApexAdditionalPageDone(r, list) ==
    /\ ~r.raised
    /\ headers' = r.headers
    /\ events' = r.events \o <<SleepEvent(1, 3)>>
    /\ pc' = [pc EXCEPT !.url = @ + 1]
    /\ self_plans' = list
    /\ origin' = [origin EXCEPT !.plans = @ \o Filled(Len(list) - Len(self_plans), "live")]
    /\ UNCHANGED runs

\* One URL of scrape_additional_pages, its request being r.
ApexAdditionalPageWith(r, order) ==
    \/ ApexRaised(r)
    \/ ApexAdditionalPageDone(r, ApexIteration(self_plans, r.response, order))

\* apex_scraper.scrape_additional_pages(): one URL of its loop.
ApexAdditionalPage ==
    /\ pc.at = "apex" /\ pc.url \in 1..Len(ApexAdditionalUrls)
    /\ \E script \in Scripts(ApexPages) :
         \E order \in ApexOrders(script) :
            ApexAdditionalPageWith(
                MakeRequest(headers, ApexAdditionalUrls[pc.url], DefaultMaxRetries, script),
                order)
    /\ UNCHANGED <<call, extractVars, convertVars, scoreVars, merges, cacheVars, all_data, calls>>

\* The rest of the Apex try block: get_standardized_data() and all_data.extend.
ApexDone ==
    /\ pc.at = "apex" /\ pc.url > Len(ApexAdditionalUrls)
    /\ LET data_apex == StandardizeApex(self_plans)
       IN  /\ runs' = [runs EXCEPT !.apex = [status |-> "ok", data |-> data_apex]]
           /\ all_data' = all_data \o data_apex
           /\ origin' = [origin EXCEPT !.data = @ \o origin.plans]
    /\ pc' = [at |-> "mff", url |-> 0]
    /\ UNCHANGED <<fetchVars, extractVars, convertVars, scoreVars, mergeVars, cacheVars, calls>>

\* self.base_url and self.headers of the My Funded Futures scraper
MffBaseUrl == "https://myfundedfutures.com"
MffHeaders == "User-Agent" :> UserAgents[1]

\* `requests.get(self.base_url, headers=self.headers, timeout=30)`
MffGet(outcome) == <<GetEvent(MffBaseUrl, MffHeaders, outcome)>>

\* What is noted of a scrape() call that returned s.
MffNoted(outcome, s) ==
    [returned |-> TRUE, denied |-> outcome = Denied,
     failed |-> outcome.kind = "RequestException"
                \/ (outcome.kind = "status" /\ outcome.status # 200),
     gets |-> 1,
     yielded |-> s.yielded,
     div_scan |-> s.div_scan, fallback |-> s.fallback, plans |-> Len(s.plans)]

\* mff_scraper.scrape_main_page(): a first scrape(), whose result main() tests
\* and drops.
MffMainPage ==
    /\ pc.at = "mff" /\ pc.url = 0
    /\ \E outcome \in MffOutcomes :
         /\ calls' = [calls EXCEPT !.scrape = MffNoted(outcome, MffScrape(outcome))]
         /\ events' = MffGet(outcome)
    /\ pc' = [at |-> "mff", url |-> 1]
    /\ headers' = DefaultHeaders
    /\ self_plans' = <<>>
    /\ origin' = [origin EXCEPT !.plans = <<>>]
    /\ UNCHANGED <<call, extractVars, convertVars, scoreVars, merges, cacheVars, all_data, runs>>

\* The rest of the My Funded Futures try block, the second scrape() having
\* returned s.
MffExtend(outcome, s) ==
    /\ calls' = [calls EXCEPT !.scrape_again = MffNoted(outcome, s)]
    /\ runs' = [runs EXCEPT !.mff = [status |-> "ok", data |-> StandardizeMff(s.plans)]]
    /\ all_data' = all_data \o StandardizeMff(s.plans)
    /\ origin' = [origin EXCEPT !.data =
                     @ \o Filled(Len(s.plans), IF s.live THEN "live" ELSE "fallback")]

\* mff_scraper.get_standardized_data(): self.plans is not set, so scrape() is
\* run again; then all_data.extend.
MffDone ==
    /\ pc.at = "mff" /\ pc.url = 1
    /\ \E outcome \in MffOutcomes :
         /\ MffExtend(outcome, MffScrape(outcome))
         /\ events' = MffGet(outcome)
    /\ pc' = [at |-> "end", url |-> 0]
    /\ UNCHANGED <<headers, call, extractVars, convertVars, scoreVars, mergeVars, cacheVars>>

\* `if not all_data: return`, else combined_data.csv is written.
MainEnd ==
    /\ pc.at = "end"
    /\ pc' = [at |-> IF all_data = <<>> THEN "no data" ELSE "saved", url |-> 0]
    /\ UNCHANGED <<fetchVars, extractVars, convertVars, scoreVars, mergeVars, cacheVars, all_data, runs, calls,
                   origin>>

Next ==
    \/ TradeifyUrl \/ TradeifyDone
    \/ ApexMainPage \/ ApexAdditionalPage \/ ApexDone
    \/ MffMainPage \/ MffDone
    \/ MainEnd

Spec == Init /\ [][Next]_vars


\* C1 (fallback guarantee, non-empty): a call of a scraper entry point
\* (scrape_all, scrape_main_page, scrape) in which every GET for every URL was
\* answered 403 returns a non-empty plan list.
C1_FallbackNonEmpty ==
    \A c \in EntryCalls : (calls[c].returned /\ calls[c].denied) => calls[c].plans > 0

\* A finished run in which every GET of all three sources was answered 403:
\* the entry points returned 3, 6 and 5 plans.
C1_Witness ==
    /\ pc.at = "saved"
    /\ \A c \in EntryCalls : calls[c].returned /\ calls[c].denied
    /\ calls.scrape_all.plans = 3
    /\ calls.scrape_main_page.plans = 6
    /\ calls.scrape.plans = 5

\* The elements of a sequence.
Range(seq) == {seq[i] : i \in DOMAIN seq}

\* The records get_standardized_data returns for plans extracted live from the
\* pages of the three sites.
LiveRecords ==
    UNION {UNION {Range(Standardize(TradeifyLivePlans(p, o), "Tradeify")) :
                     o \in Orders(AllPlanElements(p.cards))} : p \in TradeifyPages}
    \cup UNION {UNION {Range(StandardizeApex(ApexLivePlans(p, o))) :
                          o \in Orders(AllPricingItems(p.cards))} : p \in ApexPages}
    \cup UNION {Range(StandardizeMff(MffLivePlans(p))) : p \in MffPages}

\* C2 (fallback provenance), as claimed: a record of all_data that comes from
\* static fallback data can be told from every record extracted live.
C2_FallbackDistinguishable ==
    \A i \in DOMAIN all_data :
        origin.data[i] = "fallback" => all_data[i] \notin LiveRecords

\* The data of a scraper whose try block ended normally.
DataOf(s) == IF runs[s].status = "ok" THEN runs[s].data ELSE <<>>

\* C4 (failure isolation): all_data holds the records of every scraper whose
\* try block ended normally, in the order the scrapers run, and when main()
\* ends every scraper has been executed, whatever failed.
C4_FailureIsolation ==
    /\ all_data = DataOf("tradeify") \o DataOf("apex") \o DataOf("mff")
    /\ pc.at \in {"end", "saved", "no data"} =>
          \A s \in Scrapers : runs[s].status \in {"ok", "raised"}

\* A finished run in which the Apex scraper raised and every Tradeify request
\* failed: the My Funded Futures scraper still ran and all_data holds the
\* Tradeify and the My Funded Futures records.
C4_Witness ==
    /\ pc.at = "saved"
    /\ runs.apex.status = "raised"
    /\ runs.tradeify.status = "ok" /\ runs.tradeify.data # <<>>
    /\ runs.mff.status = "ok" /\ runs.mff.data # <<>>
    /\ all_data = runs.tradeify.data \o runs.mff.data

\* C10 (strategy-chain short-circuit): in a call of a scraper entry point whose
\* structured selectors yielded a record with an account size, neither the div
\* scan nor the static fallback is run.
C10_ShortCircuit ==
    \A c \in EntryCalls : calls[c].yielded => ~calls[c].div_scan /\ ~calls[c].fallback

\* A finished run in which the structured selectors yielded records for all
\* three sources and no call ran the div scan or the fallback.
C10_Witness ==
    /\ pc.at = "saved"
    /\ \A c \in EntryCalls :
          calls[c].returned /\ calls[c].yielded /\ ~calls[c].fallback /\ ~calls[c].div_scan
    /\ \A i \in DOMAIN all_data : origin.data[i] = "live"

(***************************************************************************)
(* Claims about the fields of the plans (C11).                             *)
(***************************************************************************)

\* The keys under which a plan keeps a drawdown amount.
DrawdownAmountKeys == {"drawdown", "trailing_max_drawdown", "trailing_threshold",
                       "trailing_drawdown"}

\* The texts of the model with a currency symbol or a number of three digits
\* and more: "$" followed by an amount.
AmountTexts ==
    {"$" \o m : m \in {"625", "1,000", "1,250", "1,500", "2,000", "2,500", "3,000",
                       "4,000", "5,000", "6,500", "25,000", "50,000"}}

\* What a plan keeps besides its declared fields.
InfoOf(plan) ==
    IF "additional_info" \in DOMAIN plan THEN plan.additional_info ELSE <<>>

\* C11 (drawdown classification), as claimed: in every plan of self.plans a
\* drawdown-amount field is empty or holds an amount (a currency symbol or a
\* number of at least three digits), never a text such as 'None'.
C11_DrawdownIsAmount ==
    \A i \in DOMAIN self_plans :
        \A k \in DrawdownAmountKeys \cap DOMAIN InfoOf(self_plans[i]) :
            InfoOf(self_plans[i])[k] \in AmountTexts \cup {""}

(***************************************************************************)
(* SpecApexPage: scrape_main_page() of a fresh Apex scraper on a main page *)
(* that was fetched with status 200, followed by get_standardized_data().  *)
(* soup is the page; extracted holds self.plans and the standardized data. *)
(***************************************************************************)

\* The card with `pricing__item-top` and `pricing__item-bottom` as classes of
\* the card element itself instead of elements inside it.
FlatCard(card) == [card EXCEPT !.nested = FALSE]

\* The two cards of the end-to-end scenario.
ScenarioCards == <<ApexCard(<<"25K", "FULL">>, <<>>,
                            <<Row("Profit Goal", "$1,500")>>, <<"$147/Month">>),
                   Card100Static>>

ApexCards == {ScenarioCards[1], ScenarioCards[2], FlatCard(ScenarioCards[1]),
              FlatCard(ScenarioCards[2]), FlatCard(Card25Full)}

\* Main pages with no, one or two pricing cards.
ApexDocuments ==
    {ApexPage(<<>>)} \cup {ApexPage(<<a>>) : a \in ApexCards}
    \cup {ApexPage(<<a, b>>) : a, b \in ApexCards}

InitApexPage ==
    /\ IdleExcept("extract")
    /\ soup \in ApexDocuments
    /\ extracted = NotRun

\* What scrape_main_page() and get_standardized_data() leave.
ApexPageResult(list) ==
    [run |-> TRUE, plans |-> list, data |-> StandardizeApex(list)]

\* scrape_main_page(); get_standardized_data(), the set of pricing items
\* being iterated in some order
RunApexMainPage ==
    /\ extracted = NotRun
    /\ \E order \in Orders(AllPricingItems(soup.cards)) :
           extracted' = ApexPageResult(
               ApexScrapeMainPage([content |-> soup], ApexLivePlans(soup, order)).plans)
    /\ UNCHANGED <<soup, nonExtractVars>>

NextApexPage == RunApexMainPage

SpecApexPage == InitApexPage /\ [][NextApexPage]_vars

\* The record has the key, with that value.
Has(record, key, value) == key \in DOMAIN record /\ record[key] = value

\* The page of the scenario, with the cards' parts nested or not.
ScenarioPages ==
    {ApexPage(ScenarioCards),
     ApexPage(<<FlatCard(ScenarioCards[1]), FlatCard(ScenarioCards[2])>>)}

\* C12 (end-to-end scenario), as claimed: from the main page with the cards
\* 25K FULL ($147/Month, Profit Goal $1,500) and 100K STATIC ($137/Month,
\* Daily Drawdown $625) the standardized output has exactly two records, one
\* $25K Full Account $147/Month with profit_goal $1,500 and one $100K Static
\* Account $137/Month with daily_loss_limit $625.
C12_TwoCardScenario ==
    (extracted.run /\ soup \in ScenarioPages) =>
        /\ Len(extracted.data) = 2
        /\ \E i \in DOMAIN extracted.data :
               /\ Has(extracted.data[i], "account_size", "$25K")
               /\ Has(extracted.data[i], "trial_type", "Full Account")
               /\ Has(extracted.data[i], "price_raw", "$147/Month")
               /\ Has(extracted.data[i], "profit_goal", "$1,500")
        /\ \E i \in DOMAIN extracted.data :
               /\ Has(extracted.data[i], "account_size", "$100K")
               /\ Has(extracted.data[i], "trial_type", "Static Account")
               /\ Has(extracted.data[i], "price_raw", "$137/Month")
               /\ Has(extracted.data[i], "daily_loss_limit", "$625")

(***************************************************************************)
(* convert_k_to_thousands of scrape_plans.py.  Here a text is a sequence   *)
(* of characters, since the regular expression works on single digits.     *)
(* A float is a binary64 number: Zero, or [m, e] with m its 53 mantissa    *)
(* bits, the first of them 1, and value 0.m * 2^e.                         *)
(***************************************************************************)

DigitChars == <<"0", "1", "2", "3", "4", "5", "6", "7", "8", "9">>
IsDigit(c) == \E d \in 1..10 : DigitChars[d] = c
DigitValue(c) == (CHOOSE d \in 1..10 : DigitChars[d] = c) - 1

\* How many characters of text, from position i on, match \d+
RECURSIVE DigitRun(_, _)
DigitRun(text, i) ==
    IF i <= Len(text) /\ IsDigit(text[i]) THEN 1 + DigitRun(text, i + 1) ELSE 0

\* `K` under re.IGNORECASE, at position i
IsK(text, i) == i <= Len(text) /\ text[i] \in {"K", "k"}

\* The length of the match of r'(\d+(?:\.\d+)?)K' that starts at position i,
\* 0 when there is none: the digits, the fraction if a K follows it, the K.
MatchLen(text, i) ==
    LET a == DigitRun(text, i)
        b == IF i + a <= Len(text) /\ text[i + a] = "." THEN DigitRun(text, i + a + 1) ELSE 0
    IN  IF a = 0 THEN 0
        ELSE IF b > 0 /\ IsK(text, i + a + 1 + b) THEN a + 1 + b + 1
        ELSE IF IsK(text, i + a) THEN a + 1
        ELSE 0

\* The integer that the digits of a text spell, the point left out
RECURSIVE DigitsValue(_)
DigitsValue(text) ==
    IF text = <<>> THEN 0
    ELSE IF text[Len(text)] = "." THEN DigitsValue(SubSeq(text, 1, Len(text) - 1))
    ELSE 10 * DigitsValue(SubSeq(text, 1, Len(text) - 1)) + DigitValue(text[Len(text)])

\* The number of digits after the point
RECURSIVE Decimals(_)
Decimals(text) ==
    IF text = <<>> THEN 0
    ELSE IF text[1] = "." THEN Len(text) - 1
    ELSE Decimals(Tail(text))

RECURSIVE Pow10(_)
Pow10(f) == IF f = 0 THEN 1 ELSE 10 * Pow10(f - 1)

Zero == [zero |-> TRUE]

\* n zero bits
Zeros(n) == IF n <= 0 THEN <<>> ELSE [i \in 1..n |-> 0]

\* The bits of a natural number below 2^30, the highest first
IntBits(n) ==
    LET width == CHOOSE w \in 0..30 : n < 2^w /\ (w = 0 \/ n >= 2^(w - 1))
    IN  [i \in 1..width |-> (n \div 2^(width - i)) % 2]

\* The natural number of a sequence of bits
RECURSIVE BitsInt(_)
BitsInt(bits) ==
    IF bits = <<>> THEN 0
    ELSE IF Len(bits) = 1 THEN bits[1]
    ELSE BitsInt(SubSeq(bits, 1, Len(bits) \div 2)) * 2^(Len(bits) - Len(bits) \div 2)
         + BitsInt(SubSeq(bits, Len(bits) \div 2 + 1, Len(bits)))

\* Long numbers are sequences of limbs of LimbBits bits, the highest first.
LimbBits == 15

ToBits(limbs) ==
    [i \in 1..(LimbBits * Len(limbs)) |->
        (limbs[(i - 1) \div LimbBits + 1] \div 2^(LimbBits - 1 - ((i - 1) % LimbBits))) % 2]

ToLimbs(bits) ==
    LET padded == Zeros((LimbBits - (Len(bits) % LimbBits)) % LimbBits) \o bits
    IN  [j \in 1..(Len(padded) \div LimbBits) |->
            BitsInt(SubSeq(padded, LimbBits * (j - 1) + 1, LimbBits * j))]

\* The bits without the zeros they start with
Strip(bits) ==
    IF \A i \in DOMAIN bits : bits[i] = 0 THEN <<>>
    ELSE SubSeq(bits, CHOOSE i \in DOMAIN bits :
                          bits[i] = 1 /\ \A j \in 1..(i - 1) : bits[j] = 0, Len(bits))

\* limbs * k + carry, for a small k
RECURSIVE MulLimbs(_, _, _)
MulLimbs(limbs, k, carry) ==
    IF limbs = <<>> THEN (IF carry = 0 THEN <<>> ELSE <<carry>>)
    ELSE Append(MulLimbs(SubSeq(limbs, 1, Len(limbs) - 1), k,
                         (limbs[Len(limbs)] * k + carry) \div 2^LimbBits),
                (limbs[Len(limbs)] * k + carry) % 2^LimbBits)

\* The quotient of (r, limbs) by a small den, r < den being the remainder
\* carried in from the left
RECURSIVE DivLimbs(_, _, _)
DivLimbs(limbs, den, r) ==
    IF limbs = <<>> THEN <<>>
    ELSE <<(r * 2^LimbBits + limbs[1]) \div den>>
         \o DivLimbs(Tail(limbs), den, (r * 2^LimbBits + limbs[1]) % den)

\* The remainder of that division
RECURSIVE RemLimbs(_, _, _)
RemLimbs(limbs, den, r) ==
    IF limbs = <<>> THEN r
    ELSE RemLimbs(Tail(limbs), den, (r * 2^LimbBits + limbs[1]) % den)

\* bits + 1
Increment(bits) ==
    IF \A i \in DOMAIN bits : bits[i] = 1 THEN <<1>> \o Zeros(Len(bits))
    ELSE LET p == CHOOSE i \in DOMAIN bits :
                      bits[i] = 0 /\ \A j \in (i + 1)..Len(bits) : bits[j] = 1
         IN  [i \in DOMAIN bits |-> IF i < p THEN bits[i] ELSE IF i = p THEN 1 ELSE 0]

MantissaBits == 53

\* The binary64 number nearest to 0.bits * 2^e (ties to even), where bits
\* starts with 1 and sticky tells whether anything non-zero follows bits
RoundToFloat(bits, sticky, e) ==
    LET wide == bits \o Zeros(MantissaBits + 1 - Len(bits))
        m == SubSeq(wide, 1, MantissaBits)
        more == sticky \/ \E i \in (MantissaBits + 2)..Len(wide) : wide[i] = 1
        up == wide[MantissaBits + 1] = 1 /\ (more \/ m[MantissaBits] = 1)
    IN  IF ~up THEN [m |-> m, e |-> e]
        ELSE IF Len(Increment(m)) > MantissaBits
        THEN [m |-> SubSeq(Increment(m), 1, MantissaBits), e |-> e + 1]
        ELSE [m |-> Increment(m), e |-> e]

\* The limbs appended to the numerator before it is divided: 75 more bits
ScaleLimbs == <<0, 0, 0, 0, 0>>

\* The float with the bits of a quotient scaled by ScaleLimbs
QuotientFloat(bits, sticky) ==
    RoundToFloat(bits, sticky, Len(bits) - LimbBits * Len(ScaleLimbs))

\* float(number) for the decimal number D / 10^f
FloatOfDecimal(D, f) ==
    IF D = 0 THEN Zero
    ELSE QuotientFloat(Strip(ToBits(DivLimbs(ToLimbs(IntBits(D)) \o ScaleLimbs, Pow10(f), 0))),
                       RemLimbs(ToLimbs(IntBits(D)) \o ScaleLimbs, Pow10(f), 0) # 0)

\* The float with the bits of a product of a mantissa of exponent e
ProductFloat(bits, e) == RoundToFloat(bits, FALSE, e + Len(bits) - MantissaBits)

\* x * k in binary64, for a small natural k
FloatTimes(x, k) ==
    IF x = Zero THEN Zero
    ELSE ProductFloat(Strip(ToBits(MulLimbs(ToLimbs(x.m), k, 0))), x.e)

\* num_value.is_integer()
IsInteger(x) ==
    x = Zero \/ (x.e >= 1 /\ \A i \in (x.e + 1)..MantissaBits : x.m[i] = 0)

\* int(num_value), for a value below 2^31
IntOf(x) == IF x = Zero \/ x.e < 1 THEN 0 ELSE BitsInt(SubSeq(x.m, 1, x.e))

\* str(n) for a natural number n
RECURSIVE DecimalText(_)
DecimalText(n) ==
    IF n < 10 THEN <<DigitChars[n + 1]>>
    ELSE Append(DecimalText(n \div 10), DigitChars[(n % 10) + 1])

\* The ',' option of a format specification, on the digits of a whole number
RECURSIVE Grouped(_)
Grouped(digits) ==
    IF Len(digits) <= 3 THEN digits
    ELSE Grouped(SubSeq(digits, 1, Len(digits) - 3)) \o <<",">>
         \o SubSeq(digits, Len(digits) - 2, Len(digits))

\* The bits of x after the binary point
FractionBits(x) ==
    IF x.e >= 0 THEN SubSeq(x.m, x.e + 1, MantissaBits)
    ELSE Zeros(-x.e) \o x.m

\* x in tenths, rounded to the nearest tenth, ties to the even digit
RoundedTenths(x) ==
    LET frac == FractionBits(x)
        product == ToBits(MulLimbs(ToLimbs(frac), 10, 0))
        t == Zeros(Len(frac) - Len(product)) \o product
        digit == BitsInt(SubSeq(t, 1, Len(t) - Len(frac)))
        rest == SubSeq(t, Len(t) - Len(frac) + 1, Len(t))
        half == rest # <<>> /\ rest[1] = 1
        more == \E i \in 2..Len(rest) : rest[i] = 1
        up == half /\ (more \/ digit % 2 = 1)
    IN  IntOf(x) * 10 + digit + (IF up THEN 1 ELSE 0)

\* f"{num_value:,.1f}"
FormatOneDecimal(x) ==
    Grouped(DecimalText(RoundedTenths(x) \div 10))
    \o <<".", DigitChars[(RoundedTenths(x) % 10) + 1]>>

\* f"{int(num_value):,}" or f"{num_value:,.1f}"
FormatNumValue(num_value) ==
    IF IsInteger(num_value) THEN Grouped(DecimalText(IntOf(num_value)))
    ELSE FormatOneDecimal(num_value)

\* replace_k(match), number being match.group(1)
ReplaceK(number) ==
    FormatNumValue(FloatTimes(FloatOfDecimal(DigitsValue(number), Decimals(number)), 1000))

\* re.sub(pattern, replace_k, value, flags=re.IGNORECASE) from position i on:
\* the leftmost match is replaced and the scan goes on behind it.
RECURSIVE ReSub(_, _)
ReSub(text, i) ==
    IF i > Len(text) THEN <<>>
    ELSE IF MatchLen(text, i) = 0 THEN <<text[i]>> \o ReSub(text, i + 1)
    ELSE ReplaceK(SubSeq(text, i, i + MatchLen(text, i) - 2))
         \o ReSub(text, i + MatchLen(text, i))

\* convert_k_to_thousands(value) for a str value
ConvertKToThousands(text) == ReSub(text, 1)

(***************************************************************************)
(* SpecConvert: convert_k_to_thousands applied to one string.  The string  *)
(* is a number of tenths n written with or without its decimal and with or *)
(* without thousands separators, after an optional currency symbol and     *)
(* before K or k; or it is any text of at most MaxPieces pieces.           *)
(***************************************************************************)

MaxTenths == 999
MaxPieces == 4

\* Larger numbers, in tenths: 1050 and 2500
LargeTenths == {10500, 25000}

Pieces == {<<"$">>, <<"5">>, <<"0">>, <<".">>, <<",">>, <<"K">>, <<" ">>}

RECURSIVE Concat(_)
Concat(seqs) == IF seqs = <<>> THEN <<>> ELSE seqs[1] \o Concat(Tail(seqs))

\* The text of the number tenths/10
NumberText(tenths, point, grouped) ==
    (IF grouped THEN Grouped(DecimalText(tenths \div 10)) ELSE DecimalText(tenths \div 10))
    \o (IF point THEN <<".", DigitChars[(tenths % 10) + 1]>> ELSE <<>>)

NumberShapes ==
    {g \in [kind : {"number"}, prefix : {<<>>, <<"$">>},
            tenths : (0..MaxTenths) \cup LargeTenths, point : BOOLEAN, grouped : BOOLEAN,
            k : {"K", "k"}] :
        /\ g.point \/ g.tenths % 10 = 0
        /\ g.grouped => g.tenths \in LargeTenths}

ShapeText(g) == g.prefix \o NumberText(g.tenths, g.point, g.grouped) \o <<g.k>>

InitConvert ==
    /\ IdleExcept("convert")
    /\ \/ /\ given \in NumberShapes
          /\ k_text = ShapeText(given)
       \/ /\ given = [kind |-> "text"]
          /\ k_text \in {Concat(p) : p \in SeqsUpTo(Pieces, MaxPieces)}
    /\ returned = NotRun

\* convert_k_to_thousands(value)
RunConvert ==
    /\ returned = NotRun
    /\ returned' = [run |-> TRUE, value |-> ConvertKToThousands(k_text)]
    /\ UNCHANGED <<k_text, given, nonConvertVars>>

NextConvert == RunConvert

SpecConvert == InitConvert /\ [][NextConvert]_vars

\* The text of the whole number n with thousands separators
Thousands(n) == Grouped(DecimalText(n))

\* C13 (K-expansion), as claimed: a number before K or k, written with or
\* without thousands separators, is replaced by a thousand times the number
\* with thousands separators, the currency symbol before it being kept; a
\* text without K or k comes back unchanged.
C13_KExpansion ==
    returned.run =>
        /\ given.kind = "number" =>
               returned.value = given.prefix \o Thousands(given.tenths * 100)
        /\ (given.kind = "text" /\ \A i \in DOMAIN k_text : k_text[i] # "K") =>
               returned.value = k_text

\* The text without its thousands separators
Ungrouped(text) == SelectSeq(text, LAMBDA c : c # ",")

\* The number a text spells, divided by 1000, is tenths / 10.
SpellsThousandTimes(text, tenths) ==
    DigitsValue(text) * 10 = tenths * 1000 * Pow10(Decimals(text))

NotAugmented(h) == DOMAIN AugmentedHeaders \cap DOMAIN h = {}

\* C15 (403 augmentation scoped to the next attempt), as claimed: a GET that
\* does not directly follow a 403 answer carries no Referer and no Sec-Ch-Ua*
\* header, and when a call ends on another answer than 403 the session
\* headers, which the next call sends, carry none either.
C15_AugmentationNextAttemptOnly ==
    LET g == Gets(events)
    IN  /\ \A j \in 2..Len(g) : g[j - 1].answer # 403 => NotAugmented(g[j].headers)
        /\ (call.state # "loop" /\ g # <<>> /\ g[Len(g)].answer # 403) =>
               NotAugmented(headers)

\* The failures after which _make_request goes on to the next attempt.
RetriedFailures == FailureOutcomes \ {OtherException}

\* The kind of failure an answer stands for; in a GET event the answer of
\* a RequestException is 0.
FailureKind(answer) ==
    CASE answer = 403 -> "Denied"
      [] answer = 429 -> "RateLimited"
      [] answer = 0 -> "NetworkError"
      [] OTHER -> "HTTPError"

AnswerOf(outcome) == IF outcome.kind = "status" THEN outcome.status ELSE 0

\* What _make_request returns to its caller in the runs whose last attempt
\* failed with the given outcome.
ReturnedAfter(last) ==
    {MakeRequest(DefaultHeaders, "https://tradeify.co", DefaultMaxRetries,
                 <<[ua |-> UserAgents[1], outcome |-> o1],
                   [ua |-> UserAgents[1], outcome |-> o2],
                   [ua |-> UserAgents[1], outcome |-> last]>>).response :
         o1, o2 \in RetriedFailures}

\* C16 (typed fetch failure), as claimed: the value a _make_request call
\* returns after failing is returned by no run whose last failure is of
\* another kind.
C16_TypedFailure ==
    LET g == Gets(events)
    IN  (call.state = "returned" /\ g # <<>> /\ g[Len(g)].answer # 200) =>
            \A last \in RetriedFailures :
                FailureKind(AnswerOf(last)) # FailureKind(g[Len(g)].answer) =>
                    call.response \notin ReturnedAfter(last)

\* C17 (user-agent rotation), as claimed: the User-Agent sent with every
\* attempt is one of the five of the pool, and the one sent with a retry
\* differs from the one sent with the attempt before it.
C17_UserAgentRotation ==
    LET g == Gets(events)
    IN  /\ \A j \in 1..Len(g) :
               \E n \in DOMAIN UserAgents : g[j].headers["User-Agent"] = UserAgents[n]
        /\ \A j \in 2..Len(g) :
               g[j].headers["User-Agent"] # g[j - 1].headers["User-Agent"]


(***************************************************************************)
(* get_trustpilot_score(source_url, max_retries=3).  An answer of          *)
(* Trustpilot is an exception raised by requests.get or a status with the  *)
(* page sent.                                                              *)
(***************************************************************************)

ScoreMaxRetries == 3

NotFound == "Not found"

\* A page of Trustpilot is [elements, text, links]: the elements the rating
\* selectors match, in the order the loops visit them, each [data_rating,
\* text]; the tokens of the page text outside them; the first three `a`
\* elements whose href holds /review/, each [mentions, text], mentions telling
\* whether the href holds the domain.  The token "<domain>" stands for an
\* occurrence of the domain looked up.
ScorePage(elements, text, links) == [elements |-> elements, text |-> text, links |-> links]

\* r'(\d\.\d)': the first digit, dot, digit of a text
DigitDotDigit(tok) ==
    CASE tok = "4.8 out of 5" -> "4.8" [] tok = "3.9 out of 5" -> "3.9"
      [] tok = "2.1 - 1,204 reviews" -> "2.1"
      [] tok = "Score 9.1/10" -> "9.1" [] tok = "Rated 9.5/10" -> "9.5"
      [] tok = "Uptime 99.9%" -> "9.9" [] OTHER -> ""

\* The rating patterns (re.IGNORECASE), by the group each captures in a token.
RatingPattern(name, tok) ==
    CASE name = "out of 5" /\ tok = "4.8 out of 5" -> "4.8"
      [] name = "out of 5" /\ tok = "3.9 out of 5" -> "3.9"
      [] name = "dash reviews" /\ tok = "2.1 - 1,204 reviews" -> "2.1"
      [] name = "score" /\ tok = "Score 9.1/10" -> "9.1"
      [] OTHER -> ""

\* rating_patterns of the direct page, in the order they are tried
DirectPatterns == <<"out of 5", "reviews", "dash reviews", "TrustScore", "Rating",
                    "stars", "score">>

\* `for pattern in patterns: matches = re.findall(pattern, page_text); if
\* matches: return matches[0]`; "" when no pattern matches
FirstMatch(patterns, text) ==
    FirstGroup([n \in DOMAIN patterns |->
                    Search(LAMBDA tok : RatingPattern(patterns[n], tok), text)])

\* `if element.get('data-rating'): return it`, else the rating in its text
ElementScore(element) ==
    IF element.data_rating # "" THEN element.data_rating
    ELSE DigitDotDigit(element.text)

\* The score found on the direct review page, "" when none: the elements
\* first, then the patterns on the page text.
DirectScore(page) ==
    LET hit == SelectSeq(page.elements, LAMBDA e : ElementScore(e) # "")
    IN  IF hit # <<>> THEN ElementScore(hit[1]) ELSE FirstMatch(DirectPatterns, page.text)

\* The text a pattern that starts with the domain and `.*?` can match in:
\* what follows the first occurrence of the domain (everything when the
\* domain is the empty string).
RECURSIVE AfterDomain(_, _)
AfterDomain(text, domain) ==
    IF domain = <<>> \/ text = <<>> THEN text
    ELSE IF Head(text) = "<domain>" THEN Tail(text)
    ELSE AfterDomain(Tail(text), domain)

\* The link loop of the search page: `if domain.lower() in href.lower()` and
\* a rating in the link text.
LinkScore(links, domain) ==
    LET hit == SelectSeq(links, LAMBDA l : (l.mentions \/ domain = <<>>)
                                           /\ DigitDotDigit(l.text) # "")
    IN  IF hit = <<>> THEN "" ELSE DigitDotDigit(hit[1].text)

\* The score found on the search page, "" when none: the two patterns that
\* start with the domain, the three general ones, then the review links.
SearchScore(page, domain) ==
    LET near == FirstMatch(<<"reviews", "out of 5">>, AfterDomain(page.text, domain))
        any == FirstMatch(<<"reviews", "out of 5", "dash reviews">>, page.text)
    IN  IF near # "" THEN near ELSE IF any # "" THEN any
        ELSE LinkScore(page.links, domain)

NoScorePage == ScorePage(<<>>, <<>>, <<>>)

ScorePages ==
    {NoScorePage,
     ScorePage(<<[data_rating |-> "4.8", text |-> ""]>>, <<>>, <<>>),
     ScorePage(<<[data_rating |-> "87", text |-> ""]>>, <<>>, <<>>),
     ScorePage(<<[data_rating |-> "", text |-> "Rated 9.5/10"]>>, <<"4.8 out of 5">>, <<>>),
     ScorePage(<<>>, <<"Uptime 99.9%", "Score 9.1/10">>, <<>>),
     ScorePage(<<>>, <<"4.8 out of 5", "<domain>", "3.9 out of 5">>, <<>>),
     ScorePage(<<>>, <<"Rated 9.5/10", "2.1 - 1,204 reviews">>, <<>>),
     ScorePage(<<>>, <<"Rated 9.5/10">>, <<[mentions |-> TRUE, text |-> "Rated 9.5/10"]>>)}

ScoreAnswers ==
    {[kind |-> "RequestException"], [kind |-> "Exception"], StatusOutcome(403, NoScorePage)}
    \cup {StatusOutcome(200, page) : page \in ScorePages}

Raises(answer) == answer.kind \in {"RequestException", "Exception"}

\* One iteration of `for attempt in range(max_retries)`: the direct review
\* page, then the search page.  ctl tells how the iteration ends: "return"
\* with a score, or "next" (an exception was caught, `continue`, or the end
\* of the body was reached).
ScoreAttemptBody(direct, search, domain) ==
    IF Raises(direct)
    THEN [ctl |-> "next", score |-> "", requests |-> <<direct>>]
    ELSE IF direct.status = 200 /\ DirectScore(direct.content) # ""
    THEN [ctl |-> "return", score |-> DirectScore(direct.content), requests |-> <<direct>>]
    ELSE IF Raises(search)
    THEN [ctl |-> "next", score |-> "", requests |-> <<direct, search>>]
    ELSE IF search.status # 200 \/ SearchScore(search.content, domain) = ""
    THEN [ctl |-> "next", score |-> "", requests |-> <<direct, search>>]
    ELSE [ctl |-> "return", score |-> SearchScore(search.content, domain),
          requests |-> <<direct, search>>]

(***************************************************************************)
(* SpecScore: populate_trustpilot_scores meets a row whose domain is not   *)
(* in the cache and calls get_trustpilot_score, one loop iteration per     *)
(* step; when the call returns, the score is cached under the domain.      *)
(***************************************************************************)

ScoreUrls == {u \in CacheUrls : ~u.blank}

InitScore ==
    /\ IdleExcept("score")
    /\ \E u \in ScoreUrls :
        score_call = [state |-> "loop", source_url |-> u, attempt |-> 0,
                      attempts |-> <<>>, result |-> ""]

\* `score = get_trustpilot_score(source_url)` and `domain_scores[domain] =
\* score`
ScoreReturns(score, done) ==
    /\ score_call' = [score_call EXCEPT !.state = "returned", !.attempts = done,
                                        !.result = score]
    /\ domain_scores' = Update(domain_scores, DomainOf(score_call.source_url) :> score)

\* An iteration of the loop; after the last one, `return "Not found"`.
ScoreAttempt ==
    /\ score_call.state = "loop"
    /\ score_call.attempt < ScoreMaxRetries
    /\ \E direct \in ScoreAnswers, search \in ScoreAnswers :
        LET b == ScoreAttemptBody(direct, search, DomainOf(score_call.source_url))
            done == Append(score_call.attempts, b.requests)
        IN  IF b.ctl = "return"
            THEN ScoreReturns(b.score, done)
            ELSE IF score_call.attempt + 1 < ScoreMaxRetries
            THEN /\ score_call' = [score_call EXCEPT !.attempt = score_call.attempt + 1,
                                                     !.attempts = done]
                 /\ UNCHANGED domain_scores
            ELSE ScoreReturns(NotFound, done)
    /\ UNCHANGED <<df, cursor, lookups, nonScoreVars>>

NextScore == ScoreAttempt

SpecScore == InitScore /\ [][NextScore]_vars

\* The last request of an attempt raised or was answered with a status
\* other than 200.
AttemptFailed(requests) ==
    LET last == requests[Len(requests)]
    IN  Raises(last) \/ last.status # 200

\* C18 (Error sentinel), as claimed: when every attempt of a lookup failed
\* (a request exception or a non-200 answer), the value returned by
\* get_trustpilot_score and cached in domain_scores is "Error", which is not
\* the "Not found" value of a lookup whose pages were fetched without a rating.
C18_ErrorSentinel ==
    (/\ score_call.state = "returned"
     /\ Len(score_call.attempts) = ScoreMaxRetries
     /\ \A i \in DOMAIN score_call.attempts : AttemptFailed(score_call.attempts[i]))
        => /\ score_call.result = "Error"
           /\ domain_scores[DomainOf(score_call.source_url)] = "Error"
           /\ score_call.result # NotFound


(***************************************************************************)
(* SpecTradeifyPage: the Tradeify scraper handles one fetched page:        *)
(* extract_plans_from_soup, _create_trading_plan for each plan found, and  *)
(* get_standardized_data on the plans made.                                *)
(***************************************************************************)

TradeifyCards ==
    [heading : {<<"$25k", "account">>, <<"$250K">>},
     acc_type : {"none", "Straight to Sim Funded", "Evaluation"},
     number : {"none", "$349"},
     period : {"none", "one time fee"},
     attrs : {<<>>, <<[label |-> "Daily Loss Limit", value |-> "None"]>>},
     wrapped : BOOLEAN]

TradeifyDocuments ==
    [cards : {<<c>> : c \in TradeifyCards},
     widgets : {<<>>, <<[score |-> "4.6", text |-> <<>>]>>},
     promo : {<<>>, <<"code: SAVE20">>}]

InitTradeifyPage ==
    /\ IdleExcept("extract")
    /\ soup \in TradeifyDocuments
    /\ extracted = NotRun

\* The page is handled, the set of plan elements being iterated in one of
\* its orders.
RunTradeifyPage ==
    /\ ~extracted.run
    /\ \E order \in Orders(AllPlanElements(soup.cards)) :
        extracted' = [run |-> TRUE,
                      cards |-> [i \in DOMAIN order |-> order[i].card],
                      plans |-> Standardize(TradeifyLivePlans(soup, order), "Tradeify")]
    /\ UNCHANGED <<soup, nonExtractVars>>

NextTradeifyPage == RunTradeifyPage

SpecTradeifyPage == InitTradeifyPage /\ [][NextTradeifyPage]_vars

\* The values that stand for a missing one without being the empty string.
Placeholders == {"N/A", "None", "n/a", "-"}

\* C19 (missing values are empty strings), as claimed: in every record
\* returned by get_standardized_data, a field for which extraction found no
\* value is the empty string: the price when the card has no `.price
\* .number`, the funded price when there is no price to copy, the trial type
\* when the card has no `.acc-type`, the discount code when the page shows
\* none, the score when the page has no rating; and no field holds a
\* placeholder.
C19_MissingIsEmpty ==
    extracted.run =>
        \A i \in DOMAIN extracted.plans :
            LET record == extracted.plans[i]
                card == extracted.cards[i]
            IN  /\ card.number = "none" => record.price_raw = ""
                /\ card.number = "none" => record.funded_price = ""
                /\ card.acc_type = "none" => record.trial_type = ""
                /\ Search(PromoCode, soup.promo) = "" => record.discount_code = ""
                /\ ExtractTrustpilotScore(soup.widgets, "") = ""
                       => record.trustpilot_score = ""
                /\ \A key \in DOMAIN record : record[key] \notin Placeholders


\* The columns of the output schema.
SchemaColumns ==
    {"business_name", "plan_name", "account_type", "account_size", "price_raw",
     "funded_price", "discount_code", "trial_type", "trustpilot_score", "profit_goal",
     "drawdown_type", "drawdown", "daily_loss_limit", "activation_fee", "reset_fee",
     "source_url", "source"}

\* C20 (stable output schema), as claimed: every record of all_data has all
\* seventeen columns of the schema, whichever scraper produced it.
C20_StableSchema ==
    \A i \in DOMAIN all_data : SchemaColumns \subseteq DOMAIN all_data[i]


\* C21 (aggregate deduplication), as claimed: all_data never holds two
\* records with the same source, plan_name and price_raw, also when one plan
\* card is extracted from several URLs of a source.
C21_NoDuplicateRecords ==
    \A i, j \in DOMAIN all_data :
        (/\ all_data[i].source = all_data[j].source
         /\ all_data[i].plan_name = all_data[j].plan_name
         /\ all_data[i].price_raw = all_data[j].price_raw) => i = j


\* The business identity of each source, by the `source` of its records.
BusinessIdentity ==
    [s \in {"Tradeify", "Apex Trader Funding", "My Funded Futures"} |-> s]

\* C22 (provenance stamping), as claimed: every record of all_data carries
\* the business identity of its source as business_name and a non-empty
\* source_url, the records Apex adds from its additional pages included.
C22_ProvenanceStamped ==
    \A i \in DOMAIN all_data :
        /\ all_data[i].source \in DOMAIN BusinessIdentity
        /\ all_data[i].business_name = BusinessIdentity[all_data[i].source]
        /\ "source_url" \in DOMAIN all_data[i]
        /\ all_data[i].source_url # ""


\* The account size captured by whichever size pattern matches a token.
MffSizeCandidate(tok) == FirstGroup(<<MffSize1(tok), MffSize2(tok), MffSize3(tok)>>)

\* The pricing items of a document whose text holds a candidate account size.
MffSizedItems(doc) ==
    SelectSeq(MffPricingItems(doc), LAMBDA e : Search(MffSizeCandidate, e.text) # "")

\* C23 (first in document order wins), as claimed: when the text of a My
\* Funded Futures card holds several candidate account sizes (a '50,000'
\* before a '$100K'), the account_size extracted is the candidate that comes
\* first in the text.
C23_FirstInDocumentWins ==
    extracted.run =>
        /\ Len(extracted.plans) = Len(MffSizedItems(soup))
        /\ \A i \in DOMAIN extracted.plans :
               extracted.plans[i].account_size =
                   "$" \o Search(MffSizeCandidate, MffSizedItems(soup)[i].text) \o "K"


\* The decimal numbers from 0.0 to 5.0 with one decimal, as texts.
RatingTexts ==
    {whole \o "." \o tenth : whole \in {"0", "1", "2", "3", "4"},
                             tenth \in {"0", "1", "2", "3", "4", "5", "6", "7", "8", "9"}}
    \cup {"5.0"}

\* C24 (reputation score range), as claimed: whatever the direct review page
\* and the search page hold, the value get_trustpilot_score returns is "Not
\* found" or a decimal number between 0.0 and 5.0.
C24_ScoreInRange ==
    score_call.state = "returned" => score_call.result \in RatingTexts \cup {NotFound}


\* The number of URLs an entry point fetches when every fetch fails.
UrlsOf(c) == IF c = "scrape_all" THEN Len(TradeifyUrls) ELSE 1

\* C25 (fallback only after retry exhaustion), as claimed: when an entry
\* point of a scraper returned the static fallback plans after every one of
\* its GETs failed (a status other than 200 or a request exception), each of
\* its URLs was attempted the maximum number of times, three by default.
C25_FallbackAfterExhaustion ==
    \A c \in EntryCalls :
        (calls[c].returned /\ calls[c].fallback /\ calls[c].failed)
            => calls[c].gets = DefaultMaxRetries * UrlsOf(c)


(***************************************************************************)
(* SpecLive: main() as a sequential program that is not stopped from       *)
(* outside: as long as main() has not returned, it moves on.  Every step   *)
(* of Next changes pc and some step of Next can be taken wherever main()   *)
(* has not returned, so this is weak fairness of Next.                     *)
(***************************************************************************)

\* main() has returned.
Terminated == pc.at \in {"saved", "no data"}

\* The places where main() can stand.
PcStates ==
    [at : {"tradeify", "apex", "mff", "end", "saved", "no data"},
     url : 0..(Len(TradeifyUrls) + 1)]

\* main() moves on.
Proceed == ~Terminated /\ pc' \in PcStates /\ pc' # pc

SpecLive == Spec /\ WF_pc(Proceed)

\* The longest sleep of the scrapers: the wait after a 429 answer.
LongestSleep == 20

\* A wait with an upper bound: a sleep of bounded length or a GET with a
\* timeout.
BoundedWait(e) ==
    IF e.op = "sleep" THEN e.hi <= LongestSleep ELSE e.timeout > 0

\* C26 (termination): whatever the answers to the requests, main() returns;
\* every request makes at most max_retries GETs, and every sleep is bounded
\* and every GET has a timeout.
C26_Termination ==
    /\ <>Terminated
    /\ [](/\ Len(Gets(events)) <= DefaultMaxRetries
          /\ \A i \in DOMAIN events : BoundedWait(events[i]))

\* main() has returned after every GET of Tradeify failed at each of the
\* three attempts for each of the six URLs, an exception left the Apex try
\* block, and My Funded Futures made its single GET.
C26_Witness ==
    /\ Terminated
    /\ runs.apex.status = "raised"
    /\ calls.scrape_all.gets = DefaultMaxRetries * Len(TradeifyUrls)
    /\ Len(Gets(events)) = 1


\* The _make_request call of SpecFetch is over: it returned or raised.
CallOver == call.state \in {"returned", "raised"}

\* C27 (backoff only between attempts): in the events of one _make_request
\* call no sleep precedes the first GET, and once the call is over every sleep
\* is followed by a later GET of the same call, so that no sleep is made
\* after the final attempt, a final attempt answered with 429 included.
C27_SleepsOnlyBetweenAttempts ==
    \A i \in DOMAIN events :
        events[i].op = "sleep" =>
            /\ \E j \in 1..(i - 1) : events[j].op = "get"
            /\ CallOver => \E j \in (i + 1)..Len(events) : events[j].op = "get"


\* The GETs of the last step that went to a URL of scrape_additional_pages.
AdditionalGets ==
    SelectSeq(Gets(events),
              LAMBDA e : \E k \in DOMAIN ApexAdditionalUrls : e.url = ApexAdditionalUrls[k])

\* C28 (additional pages only after a working main page): once the Apex
\* scrape_main_page has returned its static fallback plans, main() fetches no
\* URL of scrape_additional_pages, and while the Apex block runs self.plans
\* holds no plan taken from a live page.
C28_AdditionalOnlyAfterLive ==
    calls.scrape_main_page.fallback =>
        /\ AdditionalGets = <<>>
        /\ pc.at = "apex" => \A i \in DOMAIN origin.plans : origin.plans[i] = "fallback"


\* Where the plans that scrape_all returned came from, in self.plans order.
ScrapeAllOrigins == SubSeq(origin.data, 1, calls.scrape_all.plans)

\* C29 (live and fallback never mix in scrape_all): once scrape_all has
\* returned on the fresh Tradeify scraper, its plans are all live or all
\* fallback plans, and the fallback was used exactly if no plan was extracted
\* from any URL, whatever the answers to the requests were.
C29_LiveFallbackNeverMix ==
    calls.scrape_all.returned =>
        /\ \/ \A i \in DOMAIN ScrapeAllOrigins : ScrapeAllOrigins[i] = "live"
           \/ \A i \in DOMAIN ScrapeAllOrigins : ScrapeAllOrigins[i] = "fallback"
        /\ calls.scrape_all.fallback <=>
               ~(\E i \in DOMAIN ScrapeAllOrigins : ScrapeAllOrigins[i] = "live")

\* scrape_all returned live plans only although some of its requests failed.
C29_Witness ==
    /\ calls.scrape_all.returned
    /\ ~calls.scrape_all.fallback
    /\ calls.scrape_all.gets > Len(TradeifyUrls)
    /\ ScrapeAllOrigins # <<>>
    /\ \A i \in DOMAIN ScrapeAllOrigins : ScrapeAllOrigins[i] = "live"


\* The records of get_standardized_data are as many as the plans that
\* scrape_main_page returned, and of the same kind (live or fallback).
MffDataOfMainPage ==
    /\ Len(runs.mff.data) = calls.scrape.plans
    /\ calls.scrape_again.returned => calls.scrape_again.fallback = calls.scrape.fallback

\* C30 (one scrape per run for My Funded Futures): when the My Funded Futures
\* block of main() is done, the site was fetched exactly once by
\* scrape_main_page, scrape_additional_pages and get_standardized_data
\* together, and the records are those of the plans scrape_main_page returned.
C30_OneScrapePerRun ==
    runs.mff.status = "ok" =>
        /\ calls.scrape.gets + calls.scrape_again.gets = 1
        /\ MffDataOfMainPage

====
